---- MODULE Spec2Model ----
(***************************************************************************)
(* Blade II Online game server: the Game Service (internal/game) and the   *)
(* Matchmaking Service (internal/matchmaking) as state machines.           *)
(***************************************************************************)
EXTENDS Integers, Sequences, FiniteSets, TLC

(***************************************************************************)
(* Bounds of the model                                                     *)
(***************************************************************************)
\* number of game connections (GClient objects) that are ever created
MaxClients == 3
\* frames a client may have waiting in its inbound queue
MaxInbound == 1
\* frames the clients send to the Game Service altogether
MaxFrames == 3
\* game connections whose read fails while they are open
MaxReadErrors == 1

(***************************************************************************)
(* Program constants                                                       *)
(***************************************************************************)
debugGameID == 20

WSMTText == 1
WSMTBinary == 2

WSCNone == 0
WSCUnknownConnectionError == 101
WSCMatchMakingGameFound == 300
WSCMatchMakingAccept == 301
WSCMatchConfirmed == 302
WSCReadyCheckFailed == 303
WSCJoinedQueue == 304
WSCOpponentAccepted == 305
WSCOpponentDidNotAccept == 306
WSCMatchMultipleConnections == 408
WSCMatchFull == 409
WSCMatchIllegalMove == 411
WSCMatchRelayMessage == 412
WSCMatchMove == 413
WSCMatchForfeit == 415
WSCMatchMutualTimeout == 416
WSCMatchTimeOut == 417
WSCMatchWin == 418
WSCMatchDraw == 419
WSCMatchLoss == 420

PlayerUndecided == 0
Player1 == 1
Player2 == 2

WaitingForPlayers == 0
Play == 1
Finished == 2

ElliotsOrbalStaff == 0
FiesTwinGunswords == 1
AlisasOrbalBow == 2
JusisSword == 3
MachiasOrbalShotgun == 4
GaiusSpear == 5
LaurasGreatsword == 6
Bolt == 7
Mirror == 8
Blast == 9
Force == 10
InactiveElliotsOrbalStaff == 11
InactiveForce == 21
boltedCardOffset == 11

serverMoveUpdateToCardOffset == 1
serverMoveUpdateMin == 1
serverMoveUpdateMax == 11
CardForce == 11

postInitialisationDeckSize == 5

U8 == 256
U16 == 65536

(***************************************************************************)
(* Card helpers (cardarray / cards)                                        *)
(***************************************************************************)
\* Card.Value
Value(c) == IF c < Bolt THEN (c + 1) % U8 ELSE IF c <= Force THEN 1 ELSE 0

isBolted(card) == card > Force

getBoltedCardrealValue(card) ==
    IF card > Force THEN Value((card - boltedCardOffset) % U8) ELSE Value(card)

last(cardSet) == IF Len(cardSet) > 0 THEN cardSet[Len(cardSet)] ELSE ElliotsOrbalStaff

\* removeLast that takes no card away
removeLastKeeps(cards) == cards

\* removeLast: the slice without its last member (the empty slice stays empty)
removeLast(cards) == IF Len(cards) > 0 THEN SubSeq(cards, 1, Len(cards) - 1) ELSE cards

contains(cardSet, cardToCheck) == \E i \in 1..Len(cardSet) : cardSet[i] = cardToCheck

\* index of the first member equal to toRemove, 0 when there is none
firstIndexOf(cards, toRemove) ==
    IF contains(cards, toRemove)
    THEN CHOOSE i \in 1..Len(cards) :
            /\ cards[i] = toRemove
            /\ \A j \in 1..(i - 1) : cards[j] # toRemove
    ELSE 0

\* removeFirstOfType: overwrite the first match with the last card, drop the last
removeFirstOfType(cards, toRemove) ==
    LET indexToRemove == firstIndexOf(cards, toRemove)
    IN  IF indexToRemove # 0
        THEN removeLast([cards EXCEPT ![indexToRemove] = last(cards)])
        ELSE cards

containsOnlyEffectCards(cardSet) == \A i \in 1..Len(cardSet) : ~(cardSet[i] < Bolt)

canOvercomeDifference(cardSet, difference) ==
    \E i \in 1..Len(cardSet) : Value(cardSet[i]) >= difference

bolt(targetField) ==
    IF Len(targetField) > 0 /\ last(targetField) <= Force
    THEN [targetField EXCEPT ![Len(targetField)] = (last(targetField) + boltedCardOffset) % U8]
    ELSE targetField

unBolt(targetField) ==
    IF Len(targetField) > 0 /\ last(targetField) >= InactiveElliotsOrbalStaff
    THEN [targetField EXCEPT ![Len(targetField)] = (last(targetField) - boltedCardOffset) % U8]
    ELSE targetField

RECURSIVE sumOfValues(_)
\* the values of the cards that are not bolted, added up
sumOfValues(targetCards) ==
    IF targetCards = <<>> THEN 0
    ELSE (sumOfValues(Tail(targetCards))
            + (IF isBolted(Head(targetCards)) THEN 0 ELSE Value(Head(targetCards)))) % U16

RECURSIVE scoreFrom(_, _, _)
scoreFrom(targetCards, i, total) ==
    IF i > Len(targetCards) THEN total
    ELSE IF isBolted(targetCards[i]) THEN scoreFrom(targetCards, i + 1, total)
    ELSE IF targetCards[i] = Force /\ i > 1
         THEN scoreFrom(targetCards, i + 1, (total * 2) % U16)
         ELSE scoreFrom(targetCards, i + 1, (total + Value(targetCards[i])) % U16)

calculateScore(targetCards) == scoreFrom(targetCards, 1, 0)

\* B2MatchInstruction.ToCard
ToCard(i) ==
    IF i >= serverMoveUpdateMin /\ i <= serverMoveUpdateMax
    THEN i - serverMoveUpdateToCardOffset
    ELSE ElliotsOrbalStaff

(***************************************************************************)
(* Move strings.  A move string is modelled as the sequence of its fields  *)
(* between ":" delimiters; a field is the decimal text of an integer, the  *)
(* empty text, or a text that is not an integer.                           *)
(***************************************************************************)
Num(n) == [kind |-> "num", val |-> n]
EmptyText == [kind |-> "empty", val |-> 0]
OtherText == [kind |-> "text", val |-> 0]

\* strconv.Atoi: err is TRUE unless the text is an integer
Atoi(field) == [err |-> field.kind # "num", val |-> IF field.kind = "num" THEN field.val ELSE 0]

\* validMoveStringRegex "^[^:]+:[^:]*$": exactly two fields, the first not empty
validMoveString(moveString) == Len(moveString) = 2 /\ moveString[1].kind # "empty"

MoveFromString(moveString) ==
    IF ~validMoveString(moveString)
    THEN [err |-> TRUE, Instruction |-> 0, Payload |-> EmptyText]
    ELSE IF Atoi(moveString[1]).err
    THEN [err |-> TRUE, Instruction |-> 0, Payload |-> EmptyText]
    ELSE IF Atoi(moveString[1]).val < 0 \/ Atoi(moveString[1]).val > CardForce
    THEN [err |-> TRUE, Instruction |-> 0, Payload |-> EmptyText]
    ELSE [err |-> FALSE, Instruction |-> Atoi(moveString[1]).val, Payload |-> moveString[2]]

(***************************************************************************)
(* Match state (MatchState, Cards) and the rules of play                   *)
(***************************************************************************)
NoCards == [Player1Deck |-> <<>>, Player1Hand |-> <<>>, Player1Field |-> <<>>, Player1Discard |-> <<>>,
            Player2Deck |-> <<>>, Player2Hand |-> <<>>, Player2Field |-> <<>>, Player2Discard |-> <<>>]

RECURSIVE reverseCardArray(_)
reverseCardArray(inArray) ==
    IF Len(inArray) = 0 THEN <<>>
    ELSE Append(reverseCardArray(Tail(inArray)), Head(inArray))

\* InitialiseCards: the last ten dealt cards, reversed, are the hand; the first five stay the deck
InitializeCards(p1Deck, p2Deck) ==
    [Player1Deck |-> SubSeq(p1Deck, 1, postInitialisationDeckSize),
     Player1Hand |-> reverseCardArray(SubSeq(p1Deck, postInitialisationDeckSize + 1, Len(p1Deck))),
     Player1Field |-> <<>>, Player1Discard |-> <<>>,
     Player2Deck |-> SubSeq(p2Deck, 1, postInitialisationDeckSize),
     Player2Hand |-> reverseCardArray(SubSeq(p2Deck, postInitialisationDeckSize + 1, Len(p2Deck))),
     Player2Field |-> <<>>, Player2Discard |-> <<>>]

\* the zones of the acting player (target) and of the other player (opposite)
targetZones(cards, player) ==
    IF player = Player1
    THEN [Deck |-> cards.Player1Deck, Hand |-> cards.Player1Hand,
          Field |-> cards.Player1Field, Discard |-> cards.Player1Discard]
    ELSE [Deck |-> cards.Player2Deck, Hand |-> cards.Player2Hand,
          Field |-> cards.Player2Field, Discard |-> cards.Player2Discard]

oppositeZones(cards, player) == targetZones(cards, IF player = Player1 THEN Player2 ELSE Player1)

\* write the two players' zones back through the pointers taken at the top of updateMatchState
storeZones(player, t, o) ==
    IF player = Player1
    THEN [Player1Deck |-> t.Deck, Player1Hand |-> t.Hand, Player1Field |-> t.Field, Player1Discard |-> t.Discard,
          Player2Deck |-> o.Deck, Player2Hand |-> o.Hand, Player2Field |-> o.Field, Player2Discard |-> o.Discard]
    ELSE [Player1Deck |-> o.Deck, Player1Hand |-> o.Hand, Player1Field |-> o.Field, Player1Discard |-> o.Discard,
          Player2Deck |-> t.Deck, Player2Hand |-> t.Hand, Player2Field |-> t.Field, Player2Discard |-> t.Discard]

isDrawn(st) ==
    /\ Len(st.Cards.Player1Deck) + Len(st.Cards.Player2Deck) = 0
    /\ Len(st.Cards.Player1Hand) + Len(st.Cards.Player2Hand) = 0
    /\ st.Player1Score = st.Player2Score

playerHasWon(st, player, usedBlastEffect) ==
    LET isOppositePlayersTurn == st.Turn # player
        targetPlayerScore == IF player = Player1 THEN st.Player1Score ELSE st.Player2Score
        targetField == IF player = Player1 THEN st.Cards.Player1Field ELSE st.Cards.Player2Field
        oppositePlayerScore == IF player = Player1 THEN st.Player2Score ELSE st.Player1Score
        oppositePlayerHand == IF player = Player1 THEN st.Cards.Player2Hand ELSE st.Cards.Player1Hand
        oppositePlayerField == IF player = Player1 THEN st.Cards.Player2Field ELSE st.Cards.Player1Field
        oppositePlayerDeckCount == IF player = Player1 THEN Len(st.Cards.Player2Deck) ELSE Len(st.Cards.Player1Deck)
        scoreGap == (targetPlayerScore - oppositePlayerScore) % U16
    IN  IF player \notin {Player1, Player2} THEN FALSE
        ELSE IF Len(oppositePlayerHand) > 0 /\ containsOnlyEffectCards(oppositePlayerHand) THEN TRUE
        ELSE IF targetPlayerScore = oppositePlayerScore /\ oppositePlayerDeckCount + Len(oppositePlayerHand) = 0 THEN TRUE
        ELSE IF usedBlastEffect /\ Len(oppositePlayerHand) = 0 THEN TRUE
        ELSE IF ~(targetPlayerScore > oppositePlayerScore) THEN FALSE
        ELSE IF isOppositePlayersTurn /\ ~usedBlastEffect THEN TRUE
        ELSE IF Len(oppositePlayerHand) = 0 THEN TRUE
        ELSE IF canOvercomeDifference(oppositePlayerHand, scoreGap) THEN FALSE
        ELSE IF /\ contains(oppositePlayerHand, ElliotsOrbalStaff)
                /\ Len(oppositePlayerField) > 0 /\ isBolted(last(oppositePlayerField))
                /\ IF last(oppositePlayerField) = InactiveForce
                   THEN (oppositePlayerScore * 2) % U16 >= targetPlayerScore
                   ELSE getBoltedCardrealValue(last(oppositePlayerField)) >= scoreGap
             THEN FALSE
        ELSE IF contains(oppositePlayerHand, Bolt) /\ Len(targetField) > 0 /\ ~isBolted(last(targetField)) THEN FALSE
        ELSE IF contains(oppositePlayerHand, Mirror) THEN FALSE
        ELSE IF contains(oppositePlayerHand, Blast) THEN FALSE
        ELSE IF contains(oppositePlayerHand, Force) /\ (oppositePlayerScore * 2) % U16 > targetPlayerScore THEN FALSE
        ELSE FALSE

\* checkForMatchEnd: <<matchEnded, winner>>
checkForMatchEnd(st, usedBlastEffect) ==
    IF isDrawn(st) THEN [matchEnded |-> TRUE, player |-> PlayerUndecided]
    ELSE IF playerHasWon(st, Player1, usedBlastEffect) THEN [matchEnded |-> TRUE, player |-> Player1]
    ELSE IF playerHasWon(st, Player2, usedBlastEffect) THEN [matchEnded |-> TRUE, player |-> Player2]
    ELSE [matchEnded |-> FALSE, player |-> PlayerUndecided]

\* isValidMove that accepts a move whoever's turn it is
anyTurnValid(st, move, player) == TRUE

isValidMove(st, move, player) == ~(st.Turn # player /\ st.Turn # PlayerUndecided)

\* the result of updateMatchState when it returns false: the state as left at that return
invalidMove(st, w1, w2) ==
    [validMove |-> FALSE, matchEnded |-> FALSE, winner |-> PlayerUndecided,
     State |-> st, w1 |-> w1, w2 |-> w2, rearm |-> FALSE, usedMirror |-> FALSE, usedBlast |-> FALSE]

\* the board as a tie would leave it if the fields stayed where they are
keepBoard(player, t, o) == storeZones(player, t, o)

\* the board clear of a tie (lines 682-688): each field goes to the end of its discard pile
clearBoard(player, t, o) ==
    storeZones(player,
               [t EXCEPT !.Discard = t.Discard \o t.Field, !.Field = <<>>],
               [o EXCEPT !.Discard = o.Discard \o o.Field, !.Field = <<>>])

\* the tail of updateMatchState (lines 651-721): scores, end check, turn, board clear, timer
finishMove(st, w1, w2, player, t, o, updateTurn, usedBlastEffect, usedMirrorEffect) ==
    LET cards1 == storeZones(player, t, o)
        st1 == [st EXCEPT !.Cards = cards1,
                          !.Player1Score = calculateScore(cards1.Player1Field),
                          !.Player2Score = calculateScore(cards1.Player2Field)]
        end == IF st1.Turn # PlayerUndecided
               THEN checkForMatchEnd(st1, usedBlastEffect)
               ELSE [matchEnded |-> FALSE, player |-> PlayerUndecided]
        tied == st1.Player1Score = st1.Player2Score
        cleared == clearBoard(player, t, o)
        st2 == IF ~updateTurn THEN st1
               ELSE IF tied THEN [st1 EXCEPT !.Turn = PlayerUndecided, !.Cards = cleared]
               ELSE IF st1.Player1Score < st1.Player2Score THEN [st1 EXCEPT !.Turn = Player1]
               ELSE [st1 EXCEPT !.Turn = Player2]
        nw1 == IF ~updateTurn THEN w1 ELSE (tied \/ st1.Player1Score < st1.Player2Score)
        nw2 == IF ~updateTurn THEN w2 ELSE (tied \/ ~(st1.Player1Score < st1.Player2Score))
    IN  IF end.matchEnded
        THEN [validMove |-> TRUE, matchEnded |-> TRUE, winner |-> end.player,
              State |-> st1, w1 |-> w1, w2 |-> w2, rearm |-> FALSE,
              usedMirror |-> usedMirrorEffect, usedBlast |-> usedBlastEffect]
        ELSE [validMove |-> TRUE, matchEnded |-> FALSE, winner |-> PlayerUndecided,
              State |-> st2, w1 |-> nw1, w2 |-> nw2, rearm |-> TRUE,
              usedMirror |-> usedMirrorEffect, usedBlast |-> usedBlastEffect]

\* updateMatchState while the turn is undecided (lines 508-541)
updateUndecided(st, w1, w2, player, move) ==
    LET t == targetZones(st.Cards, player)
        o == oppositeZones(st.Cards, player)
        inCard == ToCard(move.Instruction)
        fromDeck == Len(t.Deck) > 0
        t1 == IF fromDeck THEN [t EXCEPT !.Deck = removeLast(t.Deck)]
              ELSE [t EXCEPT !.Hand = removeFirstOfType(t.Hand, inCard)]
        t2 == [t1 EXCEPT !.Field = Append(t1.Field, inCard)]
        nw1 == IF player = Player1 THEN FALSE ELSE w1
        nw2 == IF player = Player1 THEN w2 ELSE FALSE
    IN  IF ~fromDeck /\ ~contains(t.Hand, inCard) THEN invalidMove(st, w1, w2)
        ELSE IF Len(t2.Field) = 1 /\ Len(o.Field) = 1
        THEN finishMove(st, nw1, nw2, player, t2, o, TRUE, FALSE, FALSE)
        ELSE [validMove |-> TRUE, matchEnded |-> FALSE, winner |-> PlayerUndecided,
              State |-> [st EXCEPT !.Cards = storeZones(player, t2, o)],
              w1 |-> nw1, w2 |-> nw2, rearm |-> FALSE, usedMirror |-> FALSE, usedBlast |-> FALSE]

\* updateMatchState while it is someone's turn (lines 542-649)
updateDecided(st, w1, w2, player, move) ==
    LET t == targetZones(st.Cards, player)
        o == oppositeZones(st.Cards, player)
        targetScore == IF player = Player1 THEN st.Player1Score ELSE st.Player2Score
        inCard == ToCard(move.Instruction)
        t1 == [t EXCEPT !.Hand = removeFirstOfType(t.Hand, inCard)]
        usedRodEffect == inCard = ElliotsOrbalStaff /\ Len(t.Field) > 0 /\ isBolted(last(t.Field))
        usedBoltEffect == inCard = Bolt /\ Len(o.Field) > 0 /\ ~isBolted(last(o.Field))
        usedMirrorEffect == inCard = Mirror /\ Len(t.Field) > 0 /\ Len(o.Field) > 0
        usedBlastEffect == inCard = Blast /\ Len(o.Hand) > 0
        usedForceEffect == inCard = Force /\ targetScore > 0
        usedNormalOrForceCard ==
            (~usedRodEffect /\ ~usedBoltEffect /\ ~usedMirrorEffect /\ ~usedBlastEffect) \/ usedForceEffect
        cleanup == usedNormalOrForceCard /\ Len(t1.Field) > 0 /\ isBolted(last(t1.Field))
        removedCard == last(t1.Field)
        t2 == IF cleanup
              THEN [t1 EXCEPT !.Field = removeFirstOfType(t1.Field, removedCard),
                              !.Discard = Append(t1.Discard, removedCard)]
              ELSE t1
        asEffect == Len(t2.Field) > 0 /\ ~usedNormalOrForceCard
        blasted == Atoi(move.Payload)
        blastedCard == blasted.val % U8
        \* state as it is left when the Blast payload is rejected
        stRejected == [st EXCEPT !.Cards = storeZones(player, t2, o)]
        t3 == IF ~asEffect THEN [t2 EXCEPT !.Field = Append(t2.Field, inCard)]
              ELSE IF usedBlastEffect THEN [t2 EXCEPT !.Discard = Append(t2.Discard, inCard)]
              ELSE IF usedRodEffect THEN [t2 EXCEPT !.Field = unBolt(t2.Field), !.Discard = Append(t2.Discard, inCard)]
              ELSE IF usedBoltEffect THEN [t2 EXCEPT !.Discard = Append(t2.Discard, inCard)]
              ELSE IF usedMirrorEffect THEN [t2 EXCEPT !.Field = o.Field, !.Discard = Append(t2.Discard, inCard)]
              ELSE [t2 EXCEPT !.Discard = Append(t2.Discard, inCard)]
        o3 == IF ~asEffect THEN o
              ELSE IF usedBlastEffect
                   THEN [o EXCEPT !.Hand = removeFirstOfType(o.Hand, blastedCard),
                                  !.Discard = Append(o.Discard, blastedCard)]
              ELSE IF usedRodEffect THEN o
              ELSE IF usedBoltEffect THEN [o EXCEPT !.Field = bolt(o.Field)]
              ELSE IF usedMirrorEffect THEN [o EXCEPT !.Field = t2.Field]
              ELSE o
        nw1 == IF usedBlastEffect /\ st.Turn = Player1 THEN TRUE ELSE w1
        nw2 == IF usedBlastEffect /\ st.Turn # Player1 THEN TRUE ELSE w2
    IN  IF ~contains(t.Hand, inCard) THEN invalidMove(st, w1, w2)
        ELSE IF asEffect /\ usedBlastEffect /\ (blasted.err \/ ~contains(o.Hand, blastedCard))
        THEN invalidMove(stRejected, w1, w2)
        ELSE finishMove(st, nw1, nw2, player, t3, o3, ~usedBlastEffect, usedBlastEffect,
                        asEffect /\ ~usedBlastEffect /\ ~usedRodEffect /\ ~usedBoltEffect /\ usedMirrorEffect)

\* updateMatchState: validMove, matchEnded, winner and the state, wait flags and timer re-arm it leaves
\* updateMatchState that takes every move as a draw of an Undecided turn
updateAsDraw(st, w1, w2, player, move) == updateUndecided(st, w1, w2, player, move)

updateMatchState(st, w1, w2, player, move) ==
    IF st.Turn = PlayerUndecided
    THEN updateUndecided(st, w1, w2, player, move)
    ELSE updateDecided(st, w1, w2, player, move)

(***************************************************************************)
(* A match played move by move (updateMatchState alone)                    *)
(***************************************************************************)
\* moves played in the match that is followed move by move
MaxMoves == 5

VARIABLES
    table,     \* the MatchState of the match, and the wait flags of its two clients
    moves,     \* moves sent so far
    lastMove   \* what updateMatchState returned for the last move

cvars == <<table, moves, lastMove>>

(***************************************************************************)
(* calculateScore applied to a field built card by card                    *)
(***************************************************************************)
\* cards a field holds at most
MaxField == 3

VARIABLES
    field,   \* the card array handed to calculateScore
    score    \* what calculateScore returned for it

svars == <<field, score>>

(***************************************************************************)
(* Admission to the Game Service (transactions.HandleGSConnection)         *)
(***************************************************************************)
\* connectionTimeOut, in seconds
connectionTimeOut == 10
\* the clock of the admission stops here
MaxAdmissionTime == 25

VARIABLES
    admissionNow,    \* seconds since the websocket connection was made
    timeAfter,       \* the instant the timer of the current select expires
    authReceived,    \* HandleGSConnection's authReceived
    handler,         \* HandleGSConnection: "select", "added" (gs.AddClient) or "discarded"
    inChannel,       \* the frames waitForMessageAsync has put in its channel
    framesRead,      \* frames waitForMessageAsync has read from the websocket (3: it has ended on an error)
    matchIDReadAt    \* the instant the second frame was read, -1 before

avars == <<admissionNow, timeAfter, authReceived, handler, inChannel, framesRead, matchIDReadAt>>

(***************************************************************************)
(* The turn timer of a match (updateMatchState, lines 703-718)             *)
(***************************************************************************)
\* durations in milliseconds
turnMaxWait == 21000
cardDrawDelay == 15000
tiedScoreAdditionalWait == 4500
blastCardAdditionalWait == 4500
\* times the turn timer is reset
MaxResets == 2

VARIABLES
    Latency,         \* connection.Latency of the two clients of the match
    nextTurnPeriod,  \* the period the turn timer was last set to
    timerResets      \* resets of the turn timer so far

tvars == <<Latency, nextTurnPeriod, timerResets>>

(***************************************************************************)
(* State of one client connection beside the serializer (its actions are   *)
(* further down)                                                           *)
(***************************************************************************)
\* capacity of a connection's outbound queue (32 in connection.go), scaled
MessageBufferSize == 2
\* capacity of the service's channels (2048 in server.go), scaled
BufferSize == 2
\* messages, other than the final one, that the serializer sends to the client
MaxSends == 3
\* removal requests that are ever made
MaxRemoves == 3

VARIABLES
    OutboundMessageQueue,  \* the messages buffered in the connection's outbound channel
    enqueued,              \* every message put in the outbound channel so far, in order
    written,               \* the messages written to the transport (WS.WriteMessage returned nil)
    pollSendAt,            \* where the write pump is: "get", "write", "check", "remove" or "exited"
    outMessage,            \* the message the write pump holds
    writeErr,              \* whether the pump's last WriteMessage returned an error
    writable,              \* whether the remote end still accepts writes
    wsClosed,              \* whether WS.Close() has run (the transport is released)
    clientPendingKill,     \* GClient.pendingKill
    closeTimer,            \* Close's goroutine: "none", "sleeping" or "done"
    phase,                 \* the part of MainLoop's iteration the serializer is in
    sending,               \* the channel send the serializer has reached, or "none"
    disconnectLen,         \* len(gs.disconnect)
    immediateLen,          \* len(gs.immediateDisconnect)
    sends,                 \* messages the serializer has sent to the client
    removes                \* calls of Server.Remove so far

pvars == <<OutboundMessageQueue, enqueued, written, pollSendAt, outMessage, writeErr, writable,
           wsClosed, clientPendingKill, closeTimer, phase, sending, disconnectLen, immediateLen,
           sends, removes>>

VARIABLES
    pollReceiveAt,         \* where the read pump is: "read", "check", "remove" or "exited"
    readErr                \* whether the pump's last ReadMessage returned an error

rvars == <<pollReceiveAt, readErr>>

(***************************************************************************)
(* Game Service state                                                      *)
(***************************************************************************)
VARIABLES
    clients,              \* every GClient created so far, by creation order
    connect,              \* Server.connect channel
    disconnect,           \* Server.disconnect channel
    immediateDisconnect,  \* Server.immediateDisconnect channel
    matches,              \* Server.matches, by match ID
    pc,                   \* position of MainLoop in its iteration
    goroutines,           \* goroutines started by SetMatchStart / SetMatchResult, not yet finished
    framesSent,           \* number of frames the clients have sent so far
    dbPhase,              \* the phase column of each match row in the database
    setMatchResultCalls,  \* database.SetMatchResult calls made, in order
    updateMatchStatsCalls,\* apiinterface.UpdateMatchStats calls made, in order
    setMatchStartCalls,   \* number of database.SetMatchStart calls per match
    crashed,              \* the process has panicked
    forwarded             \* the frames this iteration of MainLoop has passed to SendMessage of the
                          \* other client, in order

gvars == <<clients, connect, disconnect, immediateDisconnect, matches, pc, goroutines,
           framesSent, dbPhase, setMatchResultCalls, updateMatchStatsCalls, setMatchStartCalls, crashed,
           forwarded>>

VARIABLES
    mmClients,        \* every MMClient created so far, by creation order
    queue,            \* Queue.queue: dbId -> client, NoClient when the key is absent
    clientIndex,      \* Queue.clientIndex
    nextClientID,     \* Queue.nextClientID
    matchedPairs,     \* Queue.matchedPairs
    mmConnect,        \* Queue.connect channel
    mmDisconnect,     \* Queue.disconnect channel
    now,              \* the clock, in milliseconds
    ticks,            \* iterations of MainLoop so far
    mmCrashed,        \* the process has panicked
    createMatchCalls, \* database.CreateMatch calls made, in order: the two users, the match ID
                      \* returned (0 when the call failed) and the connections of the pair
    polled,           \* the matched pairs the last iteration polled, in slice order
    reportedDone      \* positions in polled whose pollReadyCheck returned true

mvars == <<mmClients, queue, clientIndex, nextClientID, matchedPairs, mmConnect, mmDisconnect,
           now, ticks, mmCrashed, createMatchCalls, polled, reportedDone>>

\* users that take part in the matches of the model, and the match rows that exist
Users == {1, 2}
MatchIDs == {1}

\* the cards GenerateCards may deal: 15 cards for each player
GenerateCards == {
    [p1 |-> << FiesTwinGunswords, AlisasOrbalBow, Bolt, JusisSword, LaurasGreatsword,
               Mirror, FiesTwinGunswords, Blast, Force, AlisasOrbalBow,
               GaiusSpear, ElliotsOrbalStaff, Bolt, JusisSword, MachiasOrbalShotgun >>,
     p2 |-> << AlisasOrbalBow, FiesTwinGunswords, Mirror, MachiasOrbalShotgun, JusisSword,
               Bolt, AlisasOrbalBow, Blast, Force, FiesTwinGunswords,
               GaiusSpear, ElliotsOrbalStaff, Mirror, JusisSword, MachiasOrbalShotgun >>]
}

NoClient == 0

\* a Match that is not in the match map
NoMatch == [exists |-> FALSE, Client1 |-> NoClient, Client2 |-> NoClient,
            State |-> [Winner |-> 0, Turn |-> PlayerUndecided, Cards |-> NoCards,
                       Player1Score |-> 0, Player2Score |-> 0, Phase |-> WaitingForPlayers],
            timerArmed |-> FALSE, timerC |-> 0]

\* NewMatch
NewMatch(client) == [NoMatch EXCEPT !.exists = TRUE, !.Client1 = client]

\* NewClient
NewClient(databaseID, matchID) ==
    [DBID |-> databaseID, MatchID |-> matchID, WaitingForMove |-> FALSE,
     InboundMessageQueue |-> <<>>, pendingKill |-> FALSE, closes |-> <<>>, readPump |-> "running"]

\* GClient.Close: the final message is queued and pendingKill is set
Close(cl, c, code) ==
    [cl EXCEPT ![c].closes = Append(@, code), ![c].pendingKill = TRUE]

\* Server.Remove: the request that is put on the disconnect channel
DisconnectRequest(client, reason) == [Client |-> client, Reason |-> reason]

IsSameConnection(client, other) == other # NoClient /\ client = other

\* isMatchGracefullyFinished that never finds the match finished
neverGracefullyFinished(match) == FALSE

isMatchGracefullyFinished(match) == match.State.Phase = Finished

\* the frames a client sends
MoveFrame(moveString) == [Type |-> WSMTText, Code |-> WSCMatchMove, Message |-> moveString]
ForfeitFrame == [Type |-> WSMTText, Code |-> WSCMatchForfeit, Message |-> <<>>]
RelayFrame == [Type |-> WSMTText, Code |-> WSCMatchRelayMessage, Message |-> <<>>]

GInit ==
    /\ clients = <<>>
    /\ connect = <<>>
    /\ disconnect = <<>>
    /\ immediateDisconnect = <<>>
    /\ matches = [m \in MatchIDs |-> NoMatch]
    /\ pc = "drain"
    /\ goroutines = <<>>
    /\ framesSent = 0
    /\ dbPhase = [m \in MatchIDs |-> 0]
    /\ setMatchResultCalls = <<>>
    /\ updateMatchStatsCalls = <<>>
    /\ setMatchStartCalls = [m \in MatchIDs |-> 0]
    /\ crashed = FALSE
    /\ forwarded = <<>>

(***************************************************************************)
(* Match.Tick                                                              *)
(***************************************************************************)
\* tickClient for one frame.  acc = [M: the match, C: the clients, D: requests sent to Remove,
\* F: frames passed to SendMessage of a client]
tickFrame(acc, client, other, player, message) ==
    LET M == acc.M
        C == acc.C
        \* other.SendMessage(message), lines 160 and 215
        sent == [acc EXCEPT !.F = Append(acc.F, [To |-> other, Message |-> message])]
        c1 == M.Client1
        c2 == M.Client2
        C1 == [C EXCEPT ![client].WaitingForMove = FALSE]
        move == MoveFromString(message.Message)
        \* the branches of lines 146-199, for the result res of updateMatchState
        moved(res) ==
            LET C2 == [C1 EXCEPT ![c1].WaitingForMove = res.w1, ![c2].WaitingForMove = res.w2]
                M2 == [M EXCEPT !.State = res.State,
                                !.timerArmed = IF res.rearm THEN TRUE ELSE @]
            IN  IF ~res.validMove
                THEN [acc EXCEPT !.M = [M2 EXCEPT !.State.Winner = C[other].DBID],
                                 !.C = C2,
                                 !.D = Append(acc.D, DisconnectRequest(client, WSCMatchIllegalMove))]
                ELSE IF ~res.matchEnded THEN [sent EXCEPT !.M = M2, !.C = C2]
                ELSE IF res.winner = Player1
                THEN [sent EXCEPT !.M = [M2 EXCEPT !.State.Winner = C[c1].DBID, !.State.Phase = Finished],
                                  !.C = C2,
                                  !.D = Append(acc.D, DisconnectRequest(c1, WSCMatchWin))]
                ELSE IF res.winner = Player2
                THEN [sent EXCEPT !.M = [M2 EXCEPT !.State.Winner = C[c2].DBID, !.State.Phase = Finished],
                                  !.C = C2,
                                  !.D = Append(acc.D, DisconnectRequest(c2, WSCMatchWin))]
                ELSE [sent EXCEPT !.M = [M2 EXCEPT !.State.Phase = Finished],
                                  !.C = C2,
                                  !.D = Append(acc.D, DisconnectRequest(c1, WSCMatchDraw))]
    IN  IF message.Type # WSMTText THEN acc
        ELSE IF message.Code = WSCMatchMove
        THEN IF ~move.err /\ isValidMove(M.State, move, player)
             THEN CHOOSE next \in
                      { moved(res) : res \in { updateMatchState(M.State, C1[c1].WaitingForMove,
                                                                 C1[c2].WaitingForMove, player, move) } } : TRUE
             ELSE [acc EXCEPT !.M = [M EXCEPT !.State.Winner = C[other].DBID],
                              !.C = C1,
                              !.D = Append(acc.D, DisconnectRequest(client, WSCMatchIllegalMove))]
        ELSE IF message.Type = WSCMatchForfeit
        THEN [acc EXCEPT !.M = [M EXCEPT !.State.Winner = C[other].DBID],
                         !.D = Append(acc.D, DisconnectRequest(client, WSCMatchForfeit))]
        ELSE IF message.Type = WSCMatchRelayMessage THEN sent
        ELSE acc

\* tickClient: every frame of the client's inbound queue, in order
RECURSIVE tickClient(_, _, _, _)
tickClient(acc, client, other, player) ==
    LET inbound == acc.C[client].InboundMessageQueue
    IN  IF Len(inbound) = 0 THEN acc
        ELSE CHOOSE done \in
                 { tickClient(next, client, other, player) :
                     next \in { tickFrame([acc EXCEPT !.C[client].InboundMessageQueue = Tail(inbound)],
                                          client, other, player, Head(inbound)) } } : TRUE

\* tickTimer with the phase put back to WaitingForPlayers when the timer has fired
tickTimerRegress(acc) ==
    IF acc.M.timerC = 0 THEN acc
    ELSE [acc EXCEPT !.M = [acc.M EXCEPT !.timerC = 0, !.State.Phase = WaitingForPlayers]]

\* the timeout part of Tick (lines 91-118)
tickTimer(acc) ==
    LET M == acc.M
        C == acc.C
        M1 == [M EXCEPT !.timerC = 0]
    IN  IF M.timerC = 0 THEN acc
        ELSE IF C[M.Client1].WaitingForMove /\ C[M.Client2].WaitingForMove
        THEN [acc EXCEPT !.M = [M1 EXCEPT !.State.Phase = Finished],
                         !.D = Append(acc.D, DisconnectRequest(M.Client1, WSCMatchMutualTimeout))]
        ELSE IF C[M.Client1].WaitingForMove
        THEN [acc EXCEPT !.M = [M1 EXCEPT !.State.Winner = C[M.Client2].DBID, !.State.Phase = Finished],
                         !.D = Append(acc.D, DisconnectRequest(M.Client1, WSCMatchTimeOut))]
        ELSE [acc EXCEPT !.M = [M1 EXCEPT !.State.Winner = C[M.Client1].DBID, !.State.Phase = Finished],
                         !.D = Append(acc.D, DisconnectRequest(M.Client2, WSCMatchTimeOut))]

\* Match.Tick
Tick(acc) ==
    CHOOSE done \in
        { tickTimer(second) :
            second \in { tickClient(first, acc.M.Client2, acc.M.Client1, Player2) :
                first \in { tickClient(acc, acc.M.Client1, acc.M.Client2, Player1) } } } : TRUE

(***************************************************************************)
(* Game Service: MainLoop, handleDisconnectRequests and what runs beside   *)
(* them                                                                    *)
(***************************************************************************)
\* the frames the clients of the model send
GameFrames == { MoveFrame(<<Num(7), EmptyText>>), MoveFrame(<<Num(2), EmptyText>>), MoveFrame(<<OtherText>>) }

\* the goroutine SetMatchStart starts
startGoroutine(m) ==
    [kind |-> "start", m |-> m, stage |-> "db", live |-> TRUE,
     Winner |-> 0, Client1 |-> NoClient, Client2 |-> NoClient]

\* the goroutine SetMatchResult starts: it reads the match through its pointer when it runs
resultGoroutine(m) ==
    [kind |-> "result", m |-> m, stage |-> "db", live |-> TRUE,
     Winner |-> 0, Client1 |-> NoClient, Client2 |-> NoClient]

\* Match.SetMatchResult: nothing for the debug match, else one more goroutine
SetMatchResult(gos, m) == IF m = debugGameID THEN gos ELSE Append(gos, resultGoroutine(m))

\* a match that left the match map stays as it is for the goroutines that still point to it
detach(gos, m, match) ==
    [i \in 1..Len(gos) |->
        IF gos[i].m = m /\ gos[i].live
        THEN [gos[i] EXCEPT !.live = FALSE, !.Winner = match.State.Winner,
                            !.Client1 = match.Client1, !.Client2 = match.Client2]
        ELSE gos[i]]

\* the match a goroutine sees
seenBy(g) ==
    IF g.live THEN [Winner |-> matches[g.m].State.Winner,
                    Client1 |-> matches[g.m].Client1, Client2 |-> matches[g.m].Client2]
    ELSE [Winner |-> g.Winner, Client1 |-> g.Client1, Client2 |-> g.Client2]

removeAt(seq, i) == SubSeq(seq, 1, i - 1) \o SubSeq(seq, i + 1, Len(seq))

\* Server.AddClient, after transactions.validateMatch found the match row in phase 0
AddClient(databaseID, matchID) ==
    /\ ~crashed
    /\ pc = "drain"
    /\ Len(clients) < MaxClients
    /\ dbPhase[matchID] = 0
    /\ clients' = Append(clients, NewClient(databaseID, matchID))
    /\ connect' = Append(connect, Len(clients) + 1)
    /\ UNCHANGED <<framesSent, disconnect, immediateDisconnect, matches, pc, goroutines, dbPhase,
                   setMatchResultCalls, updateMatchStatsCalls, setMatchStartCalls, crashed>>
    /\ UNCHANGED <<forwarded, mvars, cvars, pvars, svars, avars, tvars, rvars>>

\* Connection.ReadMessage: a frame of the client reaches its inbound queue
ClientSend(c, frame) ==
    /\ ~crashed
    /\ pc = "drain"
    /\ c \in 1..Len(clients)
    /\ ~clients[c].pendingKill
    /\ clients[c].readPump = "running"
    /\ c \in {matches[clients[c].MatchID].Client1, matches[clients[c].MatchID].Client2}
    /\ matches[clients[c].MatchID].State.Phase = Play
    /\ Len(clients[c].InboundMessageQueue) < MaxInbound
    /\ framesSent < MaxFrames
    /\ framesSent' = framesSent + 1
    /\ clients' = [clients EXCEPT ![c].InboundMessageQueue = Append(@, frame)]
    /\ UNCHANGED <<connect, disconnect, immediateDisconnect, matches, pc, goroutines, dbPhase,
                   setMatchResultCalls, updateMatchStatsCalls, setMatchStartCalls, crashed>>
    /\ UNCHANGED <<forwarded, mvars, cvars, pvars, svars, avars, tvars, rvars>>

\* pollReceive: the read fails while the client is not pending kill
ReadError(c) ==
    /\ ~crashed
    /\ pc = "drain"
    /\ c \in 1..Len(clients)
    /\ ~clients[c].pendingKill
    /\ clients[c].readPump = "running"
    /\ Cardinality({d \in 1..Len(clients) : clients[d].readPump = "done"}) < MaxReadErrors
    /\ clients' = [clients EXCEPT ![c].readPump = "done"]
    /\ disconnect' = Append(disconnect, DisconnectRequest(c, WSCUnknownConnectionError))
    /\ UNCHANGED <<framesSent, connect, immediateDisconnect, matches, pc, goroutines, dbPhase,
                   setMatchResultCalls, updateMatchStatsCalls, setMatchStartCalls, crashed>>
    /\ UNCHANGED <<forwarded, mvars, cvars, pvars, svars, avars, tvars, rvars>>

\* the turn timer of a match fires
TimerFire(m) ==
    /\ ~crashed
    /\ pc = "drain"
    /\ matches[m].exists
    /\ matches[m].State.Phase = Play
    /\ matches[m].timerArmed
    /\ matches' = [matches EXCEPT ![m].timerArmed = FALSE, ![m].timerC = 1]
    /\ UNCHANGED <<framesSent, clients, connect, disconnect, immediateDisconnect, pc, goroutines, dbPhase,
                   setMatchResultCalls, updateMatchStatsCalls, setMatchStartCalls, crashed>>
    /\ UNCHANGED <<forwarded, mvars, cvars, pvars, svars, avars, tvars, rvars>>

\* a seating that puts every incoming client in the second slot
seatSecond(match, c) == [match EXCEPT !.Client2 = c]

\* MainLoop lines 306-369: the seat the incoming client takes
seat(match, c) ==
    IF match.Client1 = NoClient
    THEN IF match.Client2 = NoClient THEN [match EXCEPT !.Client1 = c]
         ELSE IF clients[c].DBID = clients[match.Client2].DBID THEN [match EXCEPT !.Client2 = c]
         ELSE [match EXCEPT !.Client1 = c]
    ELSE IF clients[match.Client1].DBID = clients[c].DBID THEN [match EXCEPT !.Client1 = c]
    ELSE [match EXCEPT !.Client2 = c]

\* MainLoop lines 324 and 350: the old connection of the same user is sent to Remove
replaced(match, c) ==
    IF match.Client1 = NoClient
    THEN IF match.Client2 # NoClient /\ clients[c].DBID = clients[match.Client2].DBID
         THEN <<DisconnectRequest(match.Client2, WSCMatchMultipleConnections)>>
         ELSE <<>>
    ELSE IF clients[match.Client1].DBID = clients[c].DBID
         THEN <<DisconnectRequest(match.Client1, WSCMatchMultipleConnections)>>
         ELSE <<>>

\* SetMatchStart on the match object (the wait flags and the goroutine are set by the caller)
SetMatchStart(match, cards) ==
    [match EXCEPT !.State.Cards = InitializeCards(cards.p1, cards.p2),
                  !.State.Phase = Play, !.timerArmed = TRUE, !.timerC = 0]

\* MainLoop: case client := <-gs.connect
DrainConnect ==
    /\ ~crashed
    /\ pc = "drain"
    /\ Len(connect) > 0
    /\ LET c == Head(connect)
           m == clients[c].MatchID
           match == matches[m]
           seated == seat(match, c)
           ready == seated.Client1 # NoClient /\ seated.Client2 # NoClient
       IN  /\ connect' = Tail(connect)
           /\ IF match.exists
              THEN IF match.State.Phase >= Play
                   THEN /\ disconnect' = Append(disconnect, DisconnectRequest(c, WSCMatchFull))
                        /\ UNCHANGED <<matches, clients, goroutines>>
                   ELSE /\ disconnect' = disconnect \o replaced(match, c)
                        /\ IF ready
                           THEN \E cardsToSend \in GenerateCards :
                                  /\ matches' = [matches EXCEPT ![m] = SetMatchStart(seated, cardsToSend)]
                                  /\ clients' = [clients EXCEPT ![seated.Client1].WaitingForMove = TRUE,
                                                                ![seated.Client2].WaitingForMove = TRUE]
                                  /\ goroutines' = IF m = debugGameID THEN goroutines
                                                   ELSE Append(goroutines, startGoroutine(m))
                           ELSE /\ matches' = [matches EXCEPT ![m] = seated]
                                /\ UNCHANGED <<clients, goroutines>>
              ELSE /\ matches' = [matches EXCEPT ![m] = NewMatch(c)]
                   /\ UNCHANGED <<disconnect, clients, goroutines>>
    /\ UNCHANGED <<framesSent, immediateDisconnect, pc, dbPhase, setMatchResultCalls, updateMatchStatsCalls,
                   setMatchStartCalls, crashed>>
    /\ UNCHANGED <<forwarded, mvars, cvars, pvars, svars, avars, tvars, rvars>>

\* MainLoop: case disconnectRequest := <-gs.disconnect
DrainDisconnect ==
    /\ ~crashed
    /\ pc = "drain"
    /\ Len(disconnect) > 0
    /\ immediateDisconnect' = Append(immediateDisconnect, Head(disconnect))
    /\ disconnect' = Tail(disconnect)
    /\ UNCHANGED <<framesSent, clients, connect, matches, pc, goroutines, dbPhase,
                   setMatchResultCalls, updateMatchStatsCalls, setMatchStartCalls, crashed>>
    /\ UNCHANGED <<forwarded, mvars, cvars, pvars, svars, avars, tvars, rvars>>

\* the matches of the map in one of the orders the range loop may visit them
MatchOrders ==
    { order \in [1..Cardinality(MatchIDs) -> MatchIDs] :
        \A i, j \in 1..Cardinality(MatchIDs) : i # j => order[i] # order[j] }

RECURSIVE tickAll(_, _, _, _, _)
tickAll(order, ms, cl, dq, fw) ==
    IF Len(order) = 0 THEN [ms |-> ms, cl |-> cl, dq |-> dq, fw |-> fw]
    ELSE LET m == Head(order)
         IN  IF ms[m].exists /\ ms[m].State.Phase = Play
             THEN CHOOSE done \in
                      { tickAll(Tail(order), [ms EXCEPT ![m] = acc.M], acc.C, acc.D, acc.F) :
                          acc \in { Tick([M |-> ms[m], C |-> cl, D |-> dq, F |-> fw]) } } : TRUE
             ELSE tickAll(Tail(order), ms, cl, dq, fw)

\* MainLoop lines 289 and 430-436: the queues are empty, every match in Play is ticked
TickMatches ==
    /\ ~crashed
    /\ pc = "drain"
    /\ Len(connect) + Len(disconnect) = 0
    /\ \E order \in MatchOrders :
          \E res \in { tickAll(order, matches, clients, disconnect, <<>>) } :
              /\ matches' = res.ms
              /\ clients' = res.cl
              /\ disconnect' = res.dq
              /\ forwarded' = res.fw
    /\ pc' = "handle"
    /\ UNCHANGED <<framesSent, connect, immediateDisconnect, goroutines, dbPhase,
                   setMatchResultCalls, updateMatchStatsCalls, setMatchStartCalls, crashed>>
    /\ UNCHANGED <<mvars, cvars, pvars, svars, avars, tvars, rvars>>

\* handleDisconnectRequests lines 490-577: the reason sent to the initiator
initiatorReason(reason) ==
    IF reason = WSCUnknownConnectionError THEN WSCMatchForfeit
    ELSE IF reason = WSCMatchForfeit THEN WSCMatchForfeit
    ELSE IF reason = WSCMatchIllegalMove THEN WSCMatchIllegalMove
    ELSE IF reason = WSCMatchTimeOut THEN WSCMatchTimeOut
    ELSE IF reason = WSCMatchWin THEN WSCMatchWin
    ELSE reason

\* handleDisconnectRequests lines 490-577: the reason sent to the other client
otherReason(reason) ==
    IF reason = WSCUnknownConnectionError THEN WSCMatchForfeit
    ELSE IF reason = WSCMatchForfeit THEN WSCMatchForfeit
    ELSE IF reason = WSCMatchIllegalMove THEN WSCMatchForfeit
    ELSE IF reason = WSCMatchTimeOut THEN WSCMatchForfeit
    ELSE IF reason = WSCMatchWin THEN WSCMatchLoss
    ELSE reason

\* handleDisconnectRequests lines 490-577: whether the branch calls SetMatchResult
recordsResult(match, reason) ==
    IF reason = WSCUnknownConnectionError THEN match.State.Phase > WaitingForPlayers ELSE TRUE

\* handleDisconnectRequests lines 479-483
otherOf(match, c) ==
    IF clients[match.Client1].DBID = clients[c].DBID THEN match.Client2 ELSE match.Client1

\* handleDisconnectRequests: a nil pointer is dereferenced, or log.Panicf is reached
handlePanics(match, c, reason) ==
    \/ match.Client1 = NoClient
    \/ reason = WSCMatchLoss
    \/ /\ match.State.Phase > WaitingForPlayers
       /\ otherOf(match, c) = NoClient

\* handleDisconnectRequests: one request of the immediate disconnect queue
HandleOne ==
    /\ ~crashed
    /\ pc = "handle"
    /\ Len(immediateDisconnect) > 0
    /\ LET req == Head(immediateDisconnect)
           c == req.Client
           m == clients[c].MatchID
           match == matches[m]
           other == otherOf(match, c)
           started == match.State.Phase > WaitingForPlayers
           same == IsSameConnection(c, match.Client1) \/ IsSameConnection(c, match.Client2)
           withWinner == IF req.Reason = WSCUnknownConnectionError /\ started
                         THEN [match EXCEPT !.State.Winner = clients[other].DBID]
                         ELSE match
           gos == IF recordsResult(match, req.Reason) THEN SetMatchResult(goroutines, m) ELSE goroutines
           closed == Close(clients, c, initiatorReason(req.Reason))
       IN  /\ immediateDisconnect' = Tail(immediateDisconnect)
           /\ IF ~match.exists
              THEN /\ clients' = Close(clients, c, req.Reason)
                   /\ UNCHANGED <<matches, goroutines, crashed>>
              ELSE IF /\ isMatchGracefullyFinished(match)
                      /\ req.Reason # WSCMatchWin
                      /\ req.Reason # WSCMatchDraw
              THEN UNCHANGED <<clients, matches, goroutines, crashed>>
              ELSE IF handlePanics(match, c, req.Reason)
              THEN /\ crashed' = TRUE
                   /\ UNCHANGED <<clients, matches, goroutines>>
              ELSE IF started
              THEN IF same
                   THEN /\ clients' = Close(closed, other, otherReason(req.Reason))
                        /\ matches' = [matches EXCEPT ![m] = NoMatch]
                        /\ goroutines' = detach(gos, m, [withWinner EXCEPT !.State.Phase = Finished])
                        /\ UNCHANGED crashed
                   ELSE /\ clients' = closed
                        /\ matches' = [matches EXCEPT ![m] = [withWinner EXCEPT !.State.Phase = Finished]]
                        /\ goroutines' = gos
                        /\ UNCHANGED crashed
              ELSE /\ clients' = closed
                   /\ matches' = [matches EXCEPT ![m] =
                                     IF IsSameConnection(c, match.Client1) THEN [match EXCEPT !.Client1 = NoClient]
                                     ELSE IF IsSameConnection(c, match.Client2) THEN [match EXCEPT !.Client2 = NoClient]
                                     ELSE match]
                   /\ goroutines' = gos
                   /\ UNCHANGED crashed
    /\ UNCHANGED <<framesSent, connect, disconnect, pc, dbPhase, setMatchResultCalls, updateMatchStatsCalls,
                   setMatchStartCalls>>
    /\ UNCHANGED <<forwarded, mvars, cvars, pvars, svars, avars, tvars, rvars>>

\* handleDisconnectRequests returns: the immediate disconnect queue is empty
HandleDone ==
    /\ ~crashed
    /\ pc = "handle"
    /\ Len(immediateDisconnect) = 0
    /\ pc' = "drain"
    /\ forwarded' = <<>>
    /\ UNCHANGED <<framesSent, clients, connect, disconnect, immediateDisconnect, matches, goroutines, dbPhase,
                   setMatchResultCalls, updateMatchStatsCalls, setMatchStartCalls, crashed>>
    /\ UNCHANGED <<mvars, cvars, pvars, svars, avars, tvars, rvars>>

\* the goroutine of SetMatchStart: database.SetMatchStart
GoSetMatchStart(i) ==
    /\ ~crashed
    /\ i \in 1..Len(goroutines)
    /\ goroutines[i].kind = "start"
    /\ dbPhase' = [dbPhase EXCEPT ![goroutines[i].m] = Play]
    /\ setMatchStartCalls' = [setMatchStartCalls EXCEPT ![goroutines[i].m] = @ + 1]
    /\ goroutines' = removeAt(goroutines, i)
    /\ UNCHANGED <<framesSent, clients, connect, disconnect, immediateDisconnect, matches, pc,
                   setMatchResultCalls, updateMatchStatsCalls, crashed>>
    /\ UNCHANGED <<forwarded, mvars, cvars, pvars, svars, avars, tvars, rvars>>

\* the goroutine of SetMatchResult, line 363: database.SetMatchResult with the winner it reads now
GoSetMatchResult(i) ==
    /\ ~crashed
    /\ i \in 1..Len(goroutines)
    /\ goroutines[i].kind = "result"
    /\ goroutines[i].stage = "db"
    /\ setMatchResultCalls' = Append(setMatchResultCalls,
                                     [matchID |-> goroutines[i].m, winner |-> seenBy(goroutines[i]).Winner])
    /\ dbPhase' = [dbPhase EXCEPT ![goroutines[i].m] = Finished]
    /\ goroutines' = [goroutines EXCEPT ![i].stage = "stats"]
    /\ UNCHANGED <<framesSent, clients, connect, disconnect, immediateDisconnect, matches, pc,
                   updateMatchStatsCalls, setMatchStartCalls, crashed>>
    /\ UNCHANGED <<forwarded, mvars, cvars, pvars, svars, avars, tvars, rvars>>

\* the goroutine of SetMatchResult, lines 371-382: the winner for the stats update, read again
GoUpdateMatchStats(i) ==
    /\ ~crashed
    /\ i \in 1..Len(goroutines)
    /\ goroutines[i].kind = "result"
    /\ goroutines[i].stage = "stats"
    /\ LET seen == seenBy(goroutines[i])
       IN  IF seen.Client1 = NoClient \/ seen.Client2 = NoClient
           THEN /\ crashed' = TRUE
                /\ UNCHANGED <<updateMatchStatsCalls, goroutines>>
           ELSE /\ updateMatchStatsCalls' =
                      Append(updateMatchStatsCalls,
                             [client1ID |-> clients[seen.Client1].DBID,
                              client2ID |-> clients[seen.Client2].DBID,
                              winner |-> IF seen.Winner = clients[seen.Client1].DBID THEN Player1
                                         ELSE IF seen.Winner = clients[seen.Client2].DBID THEN Player2
                                         ELSE PlayerUndecided])
                /\ goroutines' = removeAt(goroutines, i)
                /\ UNCHANGED crashed
    /\ UNCHANGED <<framesSent, clients, connect, disconnect, immediateDisconnect, matches, pc, dbPhase,
                   setMatchResultCalls, setMatchStartCalls>>
    /\ UNCHANGED <<forwarded, mvars, cvars, pvars, svars, avars, tvars, rvars>>

(***************************************************************************)
(* Matchmaking Service (internal/matchmaking)                              *)
(***************************************************************************)
\* matchmaking connections (MMClient objects) that are ever created
MaxMMClients == 4
\* iterations of the matchmaking MainLoop
MaxTicks == 4
\* read failures of matchmaking connections
MaxMMReadErrors == 1

\* readyCheckTime and pollTime, in milliseconds
readyCheckTime == 20000
pollTime == 250

\* the code the old connection of a user is removed with (its value is not in the sources)
WSCDuplicateConnection == 102

\* users that queue for a match
MMUsers == {1, 2, 3, 4}

\* how long an iteration of MainLoop may take: the poll time, or a stall of a whole ready check time
Durations == {pollTime, readyCheckTime}

\* matchmaking.NewClient
NewMMClient(dbid) ==
    [DBID |-> dbid, ClientID |-> 0, Ready |-> FALSE, ReadyTime |-> 0, IsReadyChecking |-> FALSE,
     AcceptMessageSentToOpponent |-> FALSE, pendingKill |-> FALSE, closes |-> <<>>,
     InboundMessageQueue |-> <<>>, readPump |-> "running", sent |-> <<>>]

\* MMClient.SendMessage: the message is added to the outbound queue of the client.  Message is
\* the match ID of a MatchConfirmed message, 0 for the messages that carry none
SendMessage(cl, c, code, message) ==
    [cl EXCEPT ![c].sent = Append(@, [Code |-> code, Message |-> message])]

MInit ==
    /\ mmClients = <<>>
    /\ queue = [dbid \in MMUsers |-> NoClient]
    /\ clientIndex = <<>>
    /\ nextClientID = 0
    /\ matchedPairs = <<>>
    /\ mmConnect = <<>>
    /\ mmDisconnect = <<>>
    /\ now = 0
    /\ ticks = 0
    /\ mmCrashed = FALSE
    /\ createMatchCalls = <<>>
    /\ polled = <<>>
    /\ reportedDone = {}

\* Queue.Remove: the request is put on the disconnect channel.  The requests of an iteration are
\* sorted before they are used, so the channel keeps them by client and reason
RECURSIVE put(_, _)
put(dq, request) ==
    IF Len(dq) = 0 THEN << request >>
    ELSE IF \/ Head(dq).Client > request.Client
            \/ Head(dq).Client = request.Client /\ Head(dq).Reason >= request.Reason
    THEN << request >> \o dq
    ELSE << Head(dq) >> \o put(Tail(dq), request)

\* Queue.AddClient; users are numbered in the order in which they first connect
MMAddClient(dbid) ==
    /\ ~mmCrashed
    /\ ticks < MaxTicks
    /\ Len(mmClients) < MaxMMClients
    /\ \A other \in MMUsers : other < dbid => \E c \in 1..Len(mmClients) : mmClients[c].DBID = other
    /\ mmClients' = Append(mmClients, NewMMClient(dbid))
    /\ mmConnect' = Append(mmConnect, Len(mmClients) + 1)
    /\ UNCHANGED <<queue, clientIndex, nextClientID, matchedPairs, mmDisconnect, now, ticks,
                   mmCrashed, createMatchCalls, polled, reportedDone>>
    /\ UNCHANGED <<gvars, cvars, pvars, svars, avars, tvars, rvars>>

\* Connection.ReadMessage: the client's MatchMakingAccept frame reaches its inbound queue
MMAccept(c) ==
    /\ ~mmCrashed
    /\ ticks < MaxTicks
    /\ c \in 1..Len(mmClients)
    /\ ~mmClients[c].pendingKill
    /\ mmClients[c].readPump = "running"
    /\ queue[mmClients[c].DBID] = c
    /\ ~mmClients[c].Ready
    /\ Len(mmClients[c].InboundMessageQueue) = 0
    /\ mmClients' = [mmClients EXCEPT ![c].InboundMessageQueue = <<WSCMatchMakingAccept>>]
    /\ UNCHANGED <<queue, clientIndex, nextClientID, matchedPairs, mmConnect, mmDisconnect, now, ticks,
                   mmCrashed, createMatchCalls, polled, reportedDone>>
    /\ UNCHANGED <<gvars, cvars, pvars, svars, avars, tvars, rvars>>

\* MMClient.pollReceive: the read fails while the client is not pending kill
MMReadError(c) ==
    /\ ~mmCrashed
    /\ ticks < MaxTicks
    /\ Cardinality({ k \in 1..Len(mmClients) : mmClients[k].readPump = "done" }) < MaxMMReadErrors
    /\ c \in 1..Len(mmClients)
    /\ ~mmClients[c].pendingKill
    /\ mmClients[c].readPump = "running"
    /\ mmClients' = [mmClients EXCEPT ![c].readPump = "done"]
    /\ mmDisconnect' = put(mmDisconnect, DisconnectRequest(c, WSCUnknownConnectionError))
    /\ UNCHANGED <<queue, clientIndex, nextClientID, matchedPairs, mmConnect, now, ticks,
                   mmCrashed, createMatchCalls, polled, reportedDone>>
    /\ UNCHANGED <<gvars, cvars, pvars, svars, avars, tvars, rvars>>

\* MainLoop lines 163-192, for every client waiting on the connect channel, in order
RECURSIVE drainConnect(_, _)
drainConnect(st, waiting) ==
    IF Len(waiting) = 0 THEN st
    ELSE LET client == Head(waiting)
             dbid == st.cl[client].DBID
             oldClient == st.q[dbid]
         IN  IF oldClient # NoClient
             THEN drainConnect(
                      [st EXCEPT !.dq = put(@, DisconnectRequest(oldClient, WSCDuplicateConnection)),
                                 !.cl = SendMessage([@ EXCEPT ![client].ClientID = st.cl[oldClient].ClientID],
                                                    client, WSCJoinedQueue, 0),
                                 !.q[dbid] = client],
                      Tail(waiting))
             ELSE drainConnect(
                      [st EXCEPT !.idx = Append(@, dbid),
                                 !.cl = SendMessage([@ EXCEPT ![client].ClientID = st.next],
                                                    client, WSCJoinedQueue, 0),
                                 !.next = st.next + 1,
                                 !.q[dbid] = client],
                      Tail(waiting))

\* sort.Slice by ClientID: the orders of the requests in which the ClientIDs ascend; the sort is
\* not stable, so requests with the same ClientID come out in any order
RECURSIVE sortedOrders(_, _, _)
sortedOrders(cl, requests, left) ==
    IF left = {} THEN { <<>> }
    ELSE UNION { { <<requests[i]>> \o rest : rest \in sortedOrders(cl, requests, left \ {i}) } :
                 i \in { k \in left : \A other \in left :
                            cl[requests[k].Client].ClientID <= cl[requests[other].Client].ClientID } }

sortedByClientID(cl, requests) == sortedOrders(cl, requests, 1..Len(requests))

\* MainLoop lines 223-266: the removal of the clients that are pending removal.  st.it is the
\* index iterator (counted from 1, so 0 is the -1 of the code), index is the position in toRemove
\* (counted from 1); an index or a slice bound out of range panics.
removeOne(st, toRemove, index) ==
    LET request == toRemove[index]
        dbid == st.cl[request.Client].DBID
        client == st.q[dbid]
        closed == [st EXCEPT !.cl = Close(st.cl, client, request.Reason)]
        deleted == [closed EXCEPT !.q[dbid] = NoClient]
    IN  IF client = NoClient THEN st
        ELSE IF client # request.Client THEN closed
        ELSE IF st.it < 1 THEN deleted
        ELSE IF index > Len(st.idx) THEN [deleted EXCEPT !.panic = TRUE]
        ELSE IF st.idx[index] # dbid THEN [deleted EXCEPT !.it = 0]
        ELSE IF Len(st.idx) = 1 THEN [deleted EXCEPT !.idx = <<>>]
        ELSE IF st.it > Len(st.idx) THEN [deleted EXCEPT !.panic = TRUE]
        ELSE [deleted EXCEPT !.idx = removeAt(st.idx, st.it)]

RECURSIVE removeLoop(_, _, _)
removeLoop(st, toRemove, index) ==
    IF index < 1 \/ st.panic THEN st
    ELSE removeLoop(removeOne(st, toRemove, index), toRemove, index - 1)

\* MMClient.Tick for every client of the queue map
RECURSIVE tickClients(_, _, _, _)
tickClients(cl, q, time, c) ==
    IF c > Len(cl) THEN cl
    ELSE IF q[cl[c].DBID] = c /\ Len(cl[c].InboundMessageQueue) > 0
    THEN tickClients([cl EXCEPT ![c].InboundMessageQueue = <<>>, ![c].Ready = TRUE,
                                ![c].ReadyTime = time], q, time, c + 1)
    ELSE tickClients(cl, q, time, c + 1)

NewPair(client1, client2) ==
    [Client1 |-> client1, Client2 |-> client2, ReadyStart |-> 0, IsReadyChecking |-> FALSE]

\* Queue.matchMake
RECURSIVE matchMake(_, _, _, _, _)
matchMake(cl, q, idx, pairs, currentPair) ==
    IF Len(idx) = 0 THEN pairs
    ELSE LET client == q[Head(idx)]
         IN  IF client # NoClient /\ ~cl[client].IsReadyChecking
             THEN IF currentPair = NoClient
                  THEN matchMake(cl, q, Tail(idx), pairs, client)
                  ELSE matchMake(cl, q, Tail(idx), Append(pairs, NewPair(currentPair, client)), NoClient)
             ELSE matchMake(cl, q, Tail(idx), pairs, currentPair)

\* ClientPair.SendMatchFoundMessage for the pair at index
SendMatchFoundMessage(st, index, time) ==
    [st EXCEPT !.pairs[index].ReadyStart = time,
               !.pairs[index].IsReadyChecking = TRUE,
               !.cl = SendMessage(SendMessage([@ EXCEPT ![st.pairs[index].Client1].IsReadyChecking = TRUE,
                                                        ![st.pairs[index].Client2].IsReadyChecking = TRUE],
                                              st.pairs[index].Client1, WSCMatchMakingGameFound, 0),
                                  st.pairs[index].Client2, WSCMatchMakingGameFound, 0)]

\* one client of a ready check that timed out: removed when not valid, made eligible again otherwise
failedCheck(st, client, valid) ==
    IF ~valid
    THEN [st EXCEPT !.dq = put(@, DisconnectRequest(client, WSCReadyCheckFailed))]
    ELSE [st EXCEPT !.cl = SendMessage([@ EXCEPT ![client].IsReadyChecking = FALSE,
                                                 ![client].Ready = FALSE],
                                       client, WSCOpponentDidNotAccept, 0)]

\* database.CreateMatch: the ID of the inserted row, and the zero value when the statement failed
CreateMatch(created, createOk) ==
    IF createOk THEN Cardinality({i \in 1..Len(created) : created[i].matchID # 0}) + 1 ELSE 0

\* ClientPair.SendMatchConfirmedMessage
SendMatchConfirmedMessage(cl, clientPair, matchID) ==
    SendMessage(SendMessage(cl, clientPair.Client1, WSCMatchConfirmed, matchID),
                clientPair.Client2, WSCMatchConfirmed, matchID)

\* Queue.pollReadyCheck; st.finished is the returned value
pollReadyCheck(st, clientPair, time, createOk) ==
    LET client1 == clientPair.Client1
        client2 == clientPair.Client2
        timedOut == time - clientPair.ReadyStart > readyCheckTime
        client1ReadyValid == st.cl[client1].Ready
                             /\ st.cl[client1].ReadyTime - clientPair.ReadyStart <= readyCheckTime
        client2ReadyValid == st.cl[client2].Ready
                             /\ st.cl[client2].ReadyTime - clientPair.ReadyStart <= readyCheckTime
        matchID == CreateMatch(st.created, createOk)
        failed == IF createOk THEN st.dq
                  ELSE put(put(st.dq, DisconnectRequest(client1, WSCReadyCheckFailed)),
                           DisconnectRequest(client2, WSCReadyCheckFailed))
    IN  IF (client1ReadyValid /\ client2ReadyValid) \/ timedOut
        THEN IF timedOut /\ (~client1ReadyValid \/ ~client2ReadyValid)
             THEN [failedCheck(failedCheck(st, client1, client1ReadyValid), client2, client2ReadyValid)
                      EXCEPT !.finished = TRUE]
             ELSE [st EXCEPT !.created = Append(@, [client1DatabaseID |-> st.cl[client1].DBID,
                                                    client2DatabaseID |-> st.cl[client2].DBID,
                                                    matchID |-> matchID,
                                                    Client1 |-> client1, Client2 |-> client2]),
                             !.cl = SendMatchConfirmedMessage(@, clientPair, matchID),
                             !.dq = put(put(failed, DisconnectRequest(client1, WSCNone)),
                                        DisconnectRequest(client2, WSCNone)),
                             !.finished = TRUE]
        ELSE IF client1ReadyValid # client2ReadyValid
        THEN IF client1ReadyValid /\ ~st.cl[client1].AcceptMessageSentToOpponent
             THEN [st EXCEPT !.cl = SendMessage([@ EXCEPT ![client1].AcceptMessageSentToOpponent = TRUE],
                                                client2, WSCOpponentAccepted, 0),
                             !.finished = FALSE]
             ELSE IF client2ReadyValid /\ ~st.cl[client2].AcceptMessageSentToOpponent
             THEN [st EXCEPT !.cl = SendMessage([@ EXCEPT ![client2].AcceptMessageSentToOpponent = TRUE],
                                                client1, WSCOpponentAccepted, 0),
                             !.finished = FALSE]
             ELSE [st EXCEPT !.finished = FALSE]
        ELSE [st EXCEPT !.finished = FALSE]

\* MainLoop lines 281-302 for the pair at index
readyCheckOne(st, index, time, createOk) ==
    LET found == IF ~st.pairs[index].IsReadyChecking THEN SendMatchFoundMessage(st, index, time) ELSE st
        after == pollReadyCheck([found EXCEPT !.seen[index] = found.pairs[index]],
                                found.pairs[index], time, createOk)
    IN  IF after.finished
        THEN [after EXCEPT !.done = @ \cup {index},
                           !.pairs = IF Len(@) = 1 THEN <<>> ELSE SubSeq(@, 1, Len(@) - 1)]
        ELSE after

RECURSIVE readyCheckLoop(_, _, _, _)
readyCheckLoop(st, index, time, createOk) ==
    IF index < 1 THEN st
    ELSE readyCheckLoop(readyCheckOne(st, index, time, createOk), index - 1, time, createOk)

\* Queue.MainLoop: one iteration, from the state st of the queue
iteration(st, toRemove, time, createOk) ==
    LET removed == removeLoop([cl |-> st.cl, q |-> st.q, idx |-> st.idx,
                               it |-> Len(st.idx), panic |-> FALSE],
                              toRemove, Len(toRemove))
        ticked == tickClients(removed.cl, removed.q, time, 1)
        pairs == st.pairs \o matchMake(ticked, removed.q, removed.idx, <<>>, NoClient)
        checked == readyCheckLoop([cl |-> ticked, pairs |-> pairs, dq |-> <<>>,
                                   created |-> st.created, seen |-> pairs,
                                   done |-> {}, finished |-> FALSE],
                                  Len(pairs), time, createOk)
    IN  IF removed.panic
        THEN [panic |-> TRUE, cl |-> removed.cl, q |-> removed.q, idx |-> removed.idx,
              next |-> st.next, pairs |-> st.pairs, dq |-> <<>>, created |-> st.created,
              seen |-> st.seen, done |-> st.done]
        ELSE [panic |-> FALSE, cl |-> checked.cl, q |-> removed.q, idx |-> removed.idx,
              next |-> st.next, pairs |-> checked.pairs, dq |-> checked.dq,
              created |-> checked.created, seen |-> checked.seen, done |-> checked.done]

MMTick(duration, createOk) ==
    /\ ~mmCrashed
    /\ ticks < MaxTicks
    /\ \E drained \in { drainConnect([cl |-> mmClients, q |-> queue, idx |-> clientIndex,
                                      next |-> nextClientID, dq |-> mmDisconnect,
                                      pairs |-> matchedPairs, created |-> createMatchCalls,
                                      seen |-> polled, done |-> reportedDone], mmConnect) } :
         \E toRemove \in sortedByClientID(drained.cl, drained.dq) :
           \E after \in { iteration(drained, toRemove, now, createOk) } :
             /\ mmCrashed' = after.panic
             /\ mmClients' = after.cl
             /\ queue' = after.q
             /\ clientIndex' = after.idx
             /\ nextClientID' = after.next
             /\ matchedPairs' = after.pairs
             /\ mmDisconnect' = after.dq
             /\ createMatchCalls' = after.created
             /\ polled' = after.seen
             /\ reportedDone' = after.done
    /\ mmConnect' = <<>>
    /\ now' = now + duration
    /\ ticks' = ticks + 1
    /\ UNCHANGED <<gvars, cvars, pvars, svars, avars, tvars, rvars>>

(***************************************************************************)
(* The matchmaking queue after a ready check that one client survived      *)
(***************************************************************************)
\* one iteration of Queue.MainLoop at the given time, for the clients waiting on the connect
\* channel
iterationAt(st, waiting, time) ==
    CHOOSE after \in
        UNION { { iteration(drained, toRemove, time, TRUE) :
                    toRemove \in { CHOOSE sorted \in sortedByClientID(drained.cl, drained.dq) : TRUE } } :
                drained \in { drainConnect(st, waiting) } } : TRUE

\* two users queue and are matched; the accepter sends MatchMakingAccept, the other client
\* never does, and the iteration after readyCheckTime finds the check timed out
afterFailedCheck(accepter) ==
    LET queued == iterationAt([cl |-> <<NewMMClient(1), NewMMClient(2)>>,
                               q |-> [dbid \in MMUsers |-> NoClient], idx |-> <<>>, next |-> 0,
                               dq |-> <<>>, pairs |-> <<>>, created |-> <<>>, seen |-> <<>>,
                               done |-> {}],
                              <<1, 2>>, 0)
        accepted == [queued EXCEPT !.cl[accepter].InboundMessageQueue = <<WSCMatchMakingAccept>>]
        polledOnce == iterationAt(accepted, <<>>, pollTime)
    IN  iterationAt(polledOnce, <<>>, pollTime + readyCheckTime)

\* the queue when the failed ready check has just been reported
SurvivorInit ==
    /\ \E accepter \in {1, 2} :
         \E st \in { afterFailedCheck(accepter) } :
            /\ mmClients = st.cl
            /\ queue = st.q
            /\ clientIndex = st.idx
            /\ nextClientID = st.next
            /\ matchedPairs = st.pairs
            /\ mmDisconnect = st.dq
            /\ createMatchCalls = st.created
            /\ polled = st.seen
            /\ reportedDone = st.done
    /\ mmConnect = <<>>
    /\ now = pollTime + readyCheckTime + pollTime
    /\ ticks = 0
    /\ mmCrashed = FALSE

(***************************************************************************)
(* A match played move by move                                             *)
(***************************************************************************)
\* the moves the clients of this match send: a Rod, two basic cards, every effect card, and
\* Blast with the card it names, or with no card named
MoveStrings ==
    { << Num(card + serverMoveUpdateToCardOffset), EmptyText >> :
        card \in {ElliotsOrbalStaff, AlisasOrbalBow, JusisSword, Bolt, Mirror, Blast, Force} }
    \cup { << Num(Blast + serverMoveUpdateToCardOffset), Num(card) >> : card \in {JusisSword, Mirror} }

NoMove == [player |-> PlayerUndecided, card |-> ElliotsOrbalStaff, validMove |-> FALSE,
           matchEnded |-> FALSE, winner |-> PlayerUndecided,
           usedMirror |-> FALSE, usedBlast |-> FALSE, cleared |-> FALSE]

\* the match as SetMatchStart leaves it
CInit ==
    /\ table \in { [State |-> [Winner |-> 0, Turn |-> PlayerUndecided,
                               Cards |-> InitializeCards(cards.p1, cards.p2),
                               Player1Score |-> 0, Player2Score |-> 0, Phase |-> Play],
                    w1 |-> TRUE, w2 |-> TRUE] : cards \in GenerateCards }
    /\ moves = 0
    /\ lastMove = NoMove

\* tickClient for a move frame that parses: updateMatchState on the move of one player
PlayMove(player, moveString) ==
    /\ moves < MaxMoves
    /\ ~lastMove.matchEnded
    /\ lastMove.validMove \/ moves = 0
    /\ \E move \in { MoveFromString(moveString) } :
         /\ ~move.err
         /\ isValidMove(table.State, move, player)
         /\ \E res \in { updateMatchState(table.State, table.w1, table.w2, player, move) } :
              /\ table' = [State |-> res.State, w1 |-> res.w1, w2 |-> res.w2]
              /\ lastMove' = [player |-> player, card |-> ToCard(move.Instruction),
                              validMove |-> res.validMove, matchEnded |-> res.matchEnded,
                              winner |-> res.winner,
                              usedMirror |-> res.usedMirror, usedBlast |-> res.usedBlast,
                              cleared |-> /\ res.validMove
                                          /\ ~res.matchEnded
                                          /\ res.rearm
                                          /\ res.State.Turn = PlayerUndecided]
    /\ moves' = moves + 1
    /\ UNCHANGED <<gvars, mvars, pvars, svars, avars, tvars, rvars>>

(***************************************************************************)
(* The last moves of a match.  The position is reached from a deal by      *)
(* rounds of draws that tie: while the turn is undecided each player puts  *)
(* a card on the field (the deck is popped while it has cards, whatever    *)
(* card the move names; afterwards the named card leaves the hand), the    *)
(* scores are equal and the board is cleared.                              *)
(***************************************************************************)
\* a deal of GenerateCards in which the hands have different totals.  The decks (the first
\* five cards) end in Alisa's bow and Jusis' sword, so player 1 moves first and validateCards
\* accepts the deal at the first draw: the second card of player 1's hand can be played
EndgameDeal ==
    [p1 |-> << MachiasOrbalShotgun, GaiusSpear, LaurasGreatsword, Bolt, AlisasOrbalBow,
               GaiusSpear, ElliotsOrbalStaff, Force, FiesTwinGunswords, FiesTwinGunswords,
               AlisasOrbalBow, AlisasOrbalBow, JusisSword, MachiasOrbalShotgun, Mirror >>,
     p2 |-> << MachiasOrbalShotgun, GaiusSpear, LaurasGreatsword, Mirror, JusisSword,
               JusisSword, Blast, Bolt, FiesTwinGunswords, FiesTwinGunswords,
               AlisasOrbalBow, AlisasOrbalBow, JusisSword, MachiasOrbalShotgun, Mirror >>]

\* the match as SetMatchStart leaves it
StartOfMatch(cards) ==
    [State |-> [Winner |-> 0, Turn |-> PlayerUndecided,
                Cards |-> InitializeCards(cards.p1, cards.p2),
                Player1Score |-> 0, Player2Score |-> 0, Phase |-> Play],
     w1 |-> TRUE, w2 |-> TRUE]

\* tickClient for the move of a player who names a card (lines 136-152); a move that is
\* not valid, or that ends the match, leaves the position where it was
drawn(tbl, player, card) ==
    CHOOSE next \in
        { IF res.validMove /\ ~res.matchEnded
          THEN [State |-> res.State, w1 |-> res.w1, w2 |-> res.w2]
          ELSE tbl :
            res \in { updateMatchState(tbl.State,
                                       IF player = Player1 THEN FALSE ELSE tbl.w1,
                                       IF player = Player2 THEN FALSE ELSE tbl.w2,
                                       player,
                                       MoveFromString(<< Num(card + serverMoveUpdateToCardOffset),
                                                         EmptyText >>)) } } : TRUE

\* rounds of draws: in each round player 1 names the first card and player 2 the second
RECURSIVE playedOut(_, _)
playedOut(tbl, rounds) ==
    IF rounds = <<>> THEN tbl
    ELSE CHOOSE final \in
             { playedOut(second, Tail(rounds)) :
                 second \in { drawn(first, Player2, Head(rounds)[2]) :
                     first \in { drawn(tbl, Player1, Head(rounds)[1]) } } } : TRUE

\* the positions the last moves start from: the decks and the fields are empty, the turn is
\* undecided, and the players hold Rod and Alisa's bow each (first deal), or Gaius' spear,
\* Rod and Force against Jusis' sword, Blast and Bolt (second deal).  Five rounds use up
\* the decks, then each round takes the same kind of card from both hands
LateGames ==
    LET DeckRounds == [i \in 1..postInitialisationDeckSize |-> << AlisasOrbalBow, AlisasOrbalBow >>]
        same(hand) == [i \in 1..Len(hand) |-> << hand[i], hand[i] >>]
    IN  { playedOut(StartOfMatch(cards),
                    DeckRounds \o same(<< Mirror, FiesTwinGunswords, Blast, Force, GaiusSpear, Bolt,
                                          JusisSword, MachiasOrbalShotgun >>)) : cards \in GenerateCards }
        \cup
        { playedOut(StartOfMatch(EndgameDeal),
                    DeckRounds \o same(<< FiesTwinGunswords, FiesTwinGunswords, AlisasOrbalBow,
                                          AlisasOrbalBow, JusisSword, MachiasOrbalShotgun, Mirror >>)) }

\* the moves the clients send in the last moves of a match
EndgameMoves ==
    { << Num(card + serverMoveUpdateToCardOffset), EmptyText >> :
        card \in {ElliotsOrbalStaff, AlisasOrbalBow, JusisSword, GaiusSpear, Bolt, Force} }
    \cup { << Num(Blast + serverMoveUpdateToCardOffset), Num(card) >> :
             card \in {ElliotsOrbalStaff, GaiusSpear, Force} }

EInit ==
    /\ table \in LateGames
    /\ moves = 0
    /\ lastMove = NoMove

(***************************************************************************)
(* One client connection beside the serializer: the bounded channels       *)
(* (connection.OutboundMessageQueue, Server.disconnect,                    *)
(* Server.immediateDisconnect), the write pump (pollSend) and Close.       *)
(* Every step is one channel operation, one transport write or one locked  *)
(* access, so that the goroutines interleave as the Go scheduler lets      *)
(* them.  A blocking channel send is a pair of steps: the sender reaches   *)
(* the send statement, and the send completes once the channel has room.   *)
(***************************************************************************)
\* the message Close is called with; the others are numbered 1..MaxSends
FinalMessage == MaxSends + 1

PInit ==
    /\ OutboundMessageQueue = <<>>
    /\ enqueued = <<>>
    /\ written = <<>>
    /\ pollSendAt = "get"
    /\ outMessage = 0
    /\ writeErr = FALSE
    /\ writable = TRUE
    /\ wsClosed = FALSE
    /\ clientPendingKill = FALSE
    /\ closeTimer = "none"
    /\ phase = "drain"
    /\ sending = "none"
    /\ disconnectLen = 0
    /\ immediateLen = 0
    /\ sends = 0
    /\ removes = 0

\* Close has been called for the client: the serializer sends it nothing more
closeCalled == sending \in {"Close", "kill"} \/ clientPendingKill

\* GetNextOutboundMessage: the pump receives from the outbound channel
PumpGet ==
    /\ pollSendAt = "get"
    /\ OutboundMessageQueue # <<>>
    /\ outMessage' = Head(OutboundMessageQueue)
    /\ OutboundMessageQueue' = Tail(OutboundMessageQueue)
    /\ pollSendAt' = "write"
    /\ UNCHANGED <<gvars, mvars, cvars, svars, avars, tvars, rvars>>
    /\ UNCHANGED <<enqueued, written, writeErr, writable, wsClosed, clientPendingKill, closeTimer,
                   phase, sending, disconnectLen, immediateLen, sends, removes>>

\* connection.WriteMessage: the write succeeds while the transport is open and writable
PumpWrite ==
    /\ pollSendAt = "write"
    /\ writeErr' = (wsClosed \/ ~writable)
    /\ written' = IF wsClosed \/ ~writable THEN written ELSE Append(written, outMessage)
    /\ pollSendAt' = "check"
    /\ UNCHANGED <<gvars, mvars, cvars, svars, avars, tvars, rvars>>
    /\ UNCHANGED <<OutboundMessageQueue, enqueued, outMessage, writable, wsClosed, clientPendingKill,
                   closeTimer, phase, sending, disconnectLen, immediateLen, sends, removes>>

\* pollSend after the write: isPendingKill under the lock, exit when pending kill; on an
\* error go on to Server.Remove; else loop
PumpCheck ==
    /\ pollSendAt = "check"
    /\ pollSendAt' = IF clientPendingKill THEN "exited"
                     ELSE IF writeErr THEN "remove"
                     ELSE "get"
    /\ UNCHANGED <<gvars, mvars, cvars, svars, avars, tvars, rvars>>
    /\ UNCHANGED <<OutboundMessageQueue, enqueued, written, outMessage, writeErr, writable, wsClosed,
                   clientPendingKill, closeTimer, phase, sending, disconnectLen, immediateLen, sends,
                   removes>>

\* pollSend's Server.Remove: the send on gs.disconnect completes when the channel has
\* room, and the pump exits
PumpReport ==
    /\ pollSendAt = "remove"
    /\ disconnectLen < BufferSize
    /\ disconnectLen' = disconnectLen + 1
    /\ removes' = removes + 1
    /\ pollSendAt' = "exited"
    /\ UNCHANGED <<gvars, mvars, cvars, svars, avars, tvars, rvars>>
    /\ UNCHANGED <<OutboundMessageQueue, enqueued, written, outMessage, writeErr, writable, wsClosed,
                   clientPendingKill, closeTimer, phase, sending, immediateLen, sends>>

RInit ==
    /\ pollReceiveAt = "read"
    /\ readErr = FALSE

\* pollReceive, connection.ReadMessage returns: with a frame while the transport is open and
\* the remote end is there, with an error otherwise
ReceiveRead ==
    /\ pollReceiveAt = "read"
    /\ readErr' = (wsClosed \/ ~writable)
    /\ pollReceiveAt' = "check"
    /\ UNCHANGED <<gvars, mvars, cvars, pvars, svars, avars, tvars>>

\* pollReceive after the read: isPendingKill under the lock, exit when pending kill; on an
\* error go on to Server.Remove; else loop
ReceiveCheck ==
    /\ pollReceiveAt = "check"
    /\ pollReceiveAt' = IF clientPendingKill THEN "exited"
                        ELSE IF readErr THEN "remove"
                        ELSE "read"
    /\ UNCHANGED readErr
    /\ UNCHANGED <<gvars, mvars, cvars, pvars, svars, avars, tvars>>

\* pollReceive's Server.Remove: the send on gs.disconnect completes when the channel has
\* room, and the pump exits
ReceiveReport ==
    /\ pollReceiveAt = "remove"
    /\ disconnectLen < BufferSize
    /\ disconnectLen' = disconnectLen + 1
    /\ removes' = removes + 1
    /\ pollReceiveAt' = "exited"
    /\ UNCHANGED readErr
    /\ UNCHANGED <<gvars, mvars, cvars, svars, avars, tvars>>
    /\ UNCHANGED <<OutboundMessageQueue, enqueued, written, pollSendAt, outMessage, writeErr, writable,
                   wsClosed, clientPendingKill, closeTimer, phase, sending, immediateLen, sends>>

\* the remote end goes away: every later write fails
ClientGone ==
    /\ writable
    /\ writable' = FALSE
    /\ UNCHANGED <<gvars, mvars, cvars, svars, avars, tvars, rvars>>
    /\ UNCHANGED <<OutboundMessageQueue, enqueued, written, pollSendAt, outMessage, writeErr, wsClosed,
                   clientPendingKill, closeTimer, phase, sending, disconnectLen, immediateLen,
                   sends, removes>>

\* the serializer calls client.SendMessage: a broadcast or a joined message
\* while it drains its channels, a relayed move inside the tick
SerializerSendMessage ==
    /\ phase \in {"drain", "tick"}
    /\ sending = "none"
    /\ ~closeCalled
    /\ sends < MaxSends
    /\ sends' = sends + 1
    /\ sending' = "SendMessage"
    /\ UNCHANGED <<gvars, mvars, cvars, svars, avars, tvars, rvars>>
    /\ UNCHANGED <<OutboundMessageQueue, enqueued, written, pollSendAt, outMessage, writeErr, writable,
                   wsClosed, clientPendingKill, closeTimer, phase, disconnectLen, immediateLen, removes>>

\* connection.SendMessage: the channel send completes when the queue has room
ConnectionSendMessage ==
    /\ sending \in {"SendMessage", "Close"}
    /\ Len(OutboundMessageQueue) < MessageBufferSize
    /\ \E message \in { IF sending = "Close" THEN FinalMessage ELSE sends } :
          /\ OutboundMessageQueue' = Append(OutboundMessageQueue, message)
          /\ enqueued' = Append(enqueued, message)
    /\ sending' = IF sending = "Close" THEN "kill" ELSE "none"
    /\ UNCHANGED <<gvars, mvars, cvars, svars, avars, tvars, rvars>>
    /\ UNCHANGED <<written, pollSendAt, outMessage, writeErr, writable, wsClosed, clientPendingKill,
                   closeTimer, phase, disconnectLen, immediateLen, sends, removes>>

\* Close after its SendMessage: set pendingKill under the lock, start the goroutine
CloseKill ==
    /\ sending = "kill"
    /\ clientPendingKill' = TRUE
    /\ closeTimer' = "sleeping"
    /\ sending' = "none"
    /\ UNCHANGED <<gvars, mvars, cvars, svars, avars, tvars, rvars>>
    /\ UNCHANGED <<OutboundMessageQueue, enqueued, written, pollSendAt, outMessage, writeErr, writable,
                   wsClosed, phase, disconnectLen, immediateLen, sends, removes>>

\* Close's goroutine after closeWaitPeriod: WS.Close().  The wait is taken to be
\* long enough for the pump to do all it will do: the transport is released
\* only when the pump has exited or waits on an empty queue.
CloseTimerFire ==
    /\ closeTimer = "sleeping"
    /\ pollSendAt = "exited" \/ (pollSendAt = "get" /\ OutboundMessageQueue = <<>>)
    /\ wsClosed' = TRUE
    /\ closeTimer' = "done"
    /\ UNCHANGED <<gvars, mvars, cvars, svars, avars, tvars, rvars>>
    /\ UNCHANGED <<OutboundMessageQueue, enqueued, written, pollSendAt, outMessage, writeErr, writable,
                   clientPendingKill, phase, sending, disconnectLen, immediateLen, sends, removes>>

\* Server.Remove called by the serializer inside Match.Tick
TickRemove ==
    /\ phase = "tick"
    /\ sending = "none"
    /\ removes < MaxRemoves
    /\ removes' = removes + 1
    /\ sending' = "Remove"
    /\ UNCHANGED <<gvars, mvars, cvars, svars, avars, tvars, rvars>>
    /\ UNCHANGED <<OutboundMessageQueue, enqueued, written, pollSendAt, outMessage, writeErr, writable,
                   wsClosed, clientPendingKill, closeTimer, phase, disconnectLen, immediateLen, sends>>

\* Server.Remove called by another client's pump: the send waits for room
PumpRemove ==
    /\ removes < MaxRemoves
    /\ disconnectLen < BufferSize
    /\ removes' = removes + 1
    /\ disconnectLen' = disconnectLen + 1
    /\ UNCHANGED <<gvars, mvars, cvars, svars, avars, tvars, rvars>>
    /\ UNCHANGED <<OutboundMessageQueue, enqueued, written, pollSendAt, outMessage, writeErr, writable,
                   wsClosed, clientPendingKill, closeTimer, phase, sending, immediateLen, sends>>

\* the serializer's send on gs.disconnect completes when the channel has room
Remove ==
    /\ sending = "Remove"
    /\ disconnectLen < BufferSize
    /\ disconnectLen' = disconnectLen + 1
    /\ sending' = "none"
    /\ UNCHANGED <<gvars, mvars, cvars, svars, avars, tvars, rvars>>
    /\ UNCHANGED <<OutboundMessageQueue, enqueued, written, pollSendAt, outMessage, writeErr, writable,
                   wsClosed, clientPendingKill, closeTimer, phase, immediateLen, sends, removes>>

\* MainLoop, case disconnectRequest := <-gs.disconnect: the receive
ReceiveDisconnect ==
    /\ phase = "drain"
    /\ sending = "none"
    /\ disconnectLen > 0
    /\ disconnectLen' = disconnectLen - 1
    /\ sending' = "immediateDisconnect"
    /\ UNCHANGED <<gvars, mvars, cvars, svars, avars, tvars, rvars>>
    /\ UNCHANGED <<OutboundMessageQueue, enqueued, written, pollSendAt, outMessage, writeErr, writable,
                   wsClosed, clientPendingKill, closeTimer, phase, immediateLen, sends, removes>>

\* MainLoop, gs.immediateDisconnect <- disconnectRequest: completes when there is room
SendImmediateDisconnect ==
    /\ sending = "immediateDisconnect"
    /\ immediateLen < BufferSize
    /\ immediateLen' = immediateLen + 1
    /\ sending' = "none"
    /\ UNCHANGED <<gvars, mvars, cvars, svars, avars, tvars, rvars>>
    /\ UNCHANGED <<OutboundMessageQueue, enqueued, written, pollSendAt, outMessage, writeErr, writable,
                   wsClosed, clientPendingKill, closeTimer, phase, disconnectLen, sends, removes>>

\* MainLoop leaves its drain loop when it finds the channels empty and ticks
\* the matches; after the tick it handles the requests
NextPhase ==
    /\ sending = "none"
    /\ \/ phase = "drain" /\ disconnectLen = 0 /\ phase' = "tick"
       \/ phase = "tick" /\ phase' = "handle"
       \/ phase = "handle" /\ immediateLen = 0 /\ phase' = "drain"
    /\ UNCHANGED <<gvars, mvars, cvars, svars, avars, tvars, rvars>>
    /\ UNCHANGED <<OutboundMessageQueue, enqueued, written, pollSendAt, outMessage, writeErr, writable,
                   wsClosed, clientPendingKill, closeTimer, sending, disconnectLen, immediateLen,
                   sends, removes>>

\* handleDisconnectRequests takes one request; when it ends the client's match
\* it calls Close for the client, and Close begins with SendMessage
HandleRequest(closes) ==
    /\ phase = "handle"
    /\ sending = "none"
    /\ immediateLen > 0
    /\ immediateLen' = immediateLen - 1
    /\ sending' = IF closes /\ ~closeCalled THEN "Close" ELSE "none"
    /\ UNCHANGED <<gvars, mvars, cvars, svars, avars, tvars, rvars>>
    /\ UNCHANGED <<OutboundMessageQueue, enqueued, written, pollSendAt, outMessage, writeErr, writable,
                   wsClosed, clientPendingKill, closeTimer, phase, disconnectLen, sends, removes>>

(***************************************************************************)
(* A field built card by card and scored                                   *)
(***************************************************************************)
\* every value of type Card that has a name
AllCards == ElliotsOrbalStaff..InactiveForce

SInit ==
    /\ field = <<>>
    /\ score = calculateScore(<<>>)

\* a card is put on the field and the field is scored
PlaceCard(card) ==
    /\ Len(field) < MaxField
    /\ field' = Append(field, card)
    /\ score' = calculateScore(Append(field, card))
    /\ UNCHANGED <<gvars, mvars, cvars, pvars, avars, tvars, rvars>>

(***************************************************************************)
(* Admission to the Game Service: HandleGSConnection and the goroutine of  *)
(* waitForMessageAsync.  The handler takes a ready case of its select at   *)
(* once: no time passes while a frame waits in the channel or after the    *)
(* timer has expired.                                                      *)
(***************************************************************************)
AInit ==
    /\ admissionNow = 0
    /\ timeAfter = connectionTimeOut
    /\ authReceived = FALSE
    /\ handler = "select"
    /\ inChannel = <<>>
    /\ framesRead = 0
    /\ matchIDReadAt = -1

\* a second passes while the handler waits in its select
SecondPasses ==
    /\ handler = "select"
    /\ inChannel = <<>>
    /\ admissionNow < timeAfter
    /\ admissionNow < MaxAdmissionTime
    /\ admissionNow' = admissionNow + 1
    /\ UNCHANGED <<timeAfter, authReceived, handler, inChannel, framesRead, matchIDReadAt>>
    /\ UNCHANGED <<gvars, mvars, cvars, pvars, svars, tvars, rvars>>

\* waitForMessageAsync: the goroutine reads a frame and puts it in the channel
ReadFrame ==
    /\ handler = "select"
    /\ framesRead < 2
    /\ framesRead' = framesRead + 1
    /\ inChannel' = Append(inChannel, IF framesRead = 0 THEN "auth" ELSE "matchID")
    /\ matchIDReadAt' = IF framesRead = 1 THEN admissionNow ELSE matchIDReadAt
    /\ UNCHANGED <<admissionNow, timeAfter, authReceived, handler>>
    /\ UNCHANGED <<gvars, mvars, cvars, pvars, svars, tvars, rvars>>

\* waitForMessageAsync: ReadMessage returns an error and the goroutine ends
\* (framesRead = 3); the handler is left to its timer
AdmissionReadError ==
    /\ handler = "select"
    /\ framesRead < 2
    /\ framesRead' = 3
    /\ UNCHANGED <<admissionNow, timeAfter, authReceived, handler, inChannel, matchIDReadAt>>
    /\ UNCHANGED <<gvars, mvars, cvars, pvars, svars, tvars, rvars>>

\* case res := <-inChannel, first frame: checkAuth; when it passes the loop
\* goes round and the select is entered again, with a new time.After
ReceiveAuth(authOk) ==
    /\ handler = "select"
    /\ inChannel # <<>>
    /\ ~authReceived
    /\ inChannel' = Tail(inChannel)
    /\ IF authOk
          THEN /\ authReceived' = TRUE
               /\ timeAfter' = admissionNow + connectionTimeOut
               /\ UNCHANGED handler
          ELSE /\ handler' = "discarded"
               /\ UNCHANGED <<authReceived, timeAfter>>
    /\ UNCHANGED <<admissionNow, framesRead, matchIDReadAt>>
    /\ UNCHANGED <<gvars, mvars, cvars, pvars, svars, tvars, rvars>>

\* case res := <-inChannel, second frame: validateMatch, then gs.AddClient
ReceiveMatchID(matchOk) ==
    /\ handler = "select"
    /\ inChannel # <<>>
    /\ authReceived
    /\ inChannel' = Tail(inChannel)
    /\ handler' = IF matchOk THEN "added" ELSE "discarded"
    /\ UNCHANGED <<admissionNow, timeAfter, authReceived, framesRead, matchIDReadAt>>
    /\ UNCHANGED <<gvars, mvars, cvars, pvars, svars, tvars, rvars>>

\* case <-time.After(connectionTimeOut): the connection is discarded
ConnectionTimedOut ==
    /\ handler = "select"
    /\ admissionNow >= timeAfter
    /\ handler' = "discarded"
    /\ UNCHANGED <<admissionNow, timeAfter, authReceived, inChannel, framesRead, matchIDReadAt>>
    /\ UNCHANGED <<gvars, mvars, cvars, pvars, svars, tvars, rvars>>

(***************************************************************************)
(* The turn timer of a match                                               *)
(***************************************************************************)
\* the latencies the pong handler may measure, in milliseconds
Latencies == {0, 20, 150, 900}

\* mathplus.MaxDuration
MaxDuration(t1, t2) == IF t1 < t2 THEN t1 ELSE t2

\* NewConnection sets the latency to 0; SetMatchStart arms the timer
TInit ==
    /\ Latency = [c \in {Player1, Player2} |-> 0]
    /\ nextTurnPeriod = turnMaxWait + cardDrawDelay
    /\ timerResets = 0

\* the pong handler of a connection stores the latency it measured
PongHandler(c, measured) ==
    /\ Latency' = [Latency EXCEPT ![c] = measured]
    /\ UNCHANGED <<nextTurnPeriod, timerResets>>
    /\ UNCHANGED <<gvars, mvars, cvars, pvars, svars, avars, rvars>>

\* updateMatchState lines 703-718 after a move that left the scores tied or
\* not, with a Blast effect or not
ResetTurnTimer(tied, usedBlastEffect) ==
    /\ timerResets < MaxResets
    /\ timerResets' = timerResets + 1
    /\ nextTurnPeriod' = turnMaxWait + MaxDuration(Latency[Player1], Latency[Player2])
                         + (IF tied THEN tiedScoreAdditionalWait
                            ELSE IF usedBlastEffect THEN blastCardAdditionalWait ELSE 0)
    /\ UNCHANGED Latency
    /\ UNCHANGED <<gvars, mvars, cvars, pvars, svars, avars, rvars>>

(***************************************************************************)
(* Specifications                                                          *)
(***************************************************************************)
vars == <<gvars, mvars, cvars, pvars, svars, avars, tvars, rvars>>

Init == GInit /\ MInit /\ CInit /\ PInit /\ SInit /\ AInit /\ TInit /\ RInit

\* the game service: its serializer, its clients and its database goroutines
Next ==
    \/ \E databaseID \in Users, matchID \in MatchIDs : AddClient(databaseID, matchID)
    \/ \E c \in 1..MaxClients, frame \in GameFrames : ClientSend(c, frame)
    \/ \E c \in 1..MaxClients : ReadError(c)
    \/ \E m \in MatchIDs : TimerFire(m)
    \/ DrainConnect
    \/ DrainDisconnect
    \/ TickMatches
    \/ HandleOne
    \/ HandleDone
    \/ \E i \in 1..MaxClients : GoSetMatchStart(i)
    \/ \E i \in 1..MaxClients : GoSetMatchResult(i)
    \/ \E i \in 1..MaxClients : GoUpdateMatchStats(i)

Spec == Init /\ [][Next]_vars

\* the matchmaking service: its serializer and its clients
MMNext ==
    \/ \E dbid \in MMUsers : MMAddClient(dbid)
    \/ \E c \in 1..MaxMMClients : MMAccept(c)
    \/ \E c \in 1..MaxMMClients : MMReadError(c)
    \/ \E duration \in Durations, createOk \in BOOLEAN : MMTick(duration, createOk)

MMSpec == Init /\ [][MMNext]_vars

\* the matchmaking service after a failed ready check
ReadyInit == GInit /\ SurvivorInit /\ CInit /\ PInit /\ SInit /\ AInit /\ TInit /\ RInit

\* further users queue; no read fails and every match row is created
ReadyNext ==
    \/ \E dbid \in MMUsers \ {1, 2} : MMAddClient(dbid)
    \/ \E c \in 1..MaxMMClients : MMAccept(c)
    \/ \E duration \in Durations : MMTick(duration, TRUE)

ReadySpec == ReadyInit /\ [][ReadyNext]_vars

\* one match, move by move
CardNext == \E player \in {Player1, Player2}, moveString \in MoveStrings : PlayMove(player, moveString)

CardSpec == Init /\ [][CardNext]_vars

\* the last moves of a match
EndgameInit == GInit /\ MInit /\ EInit /\ PInit /\ SInit /\ AInit /\ TInit /\ RInit

EndgameNext == \E player \in {Player1, Player2}, moveString \in EndgameMoves : PlayMove(player, moveString)

EndgameSpec == EndgameInit /\ [][EndgameNext]_vars

\* one connection, its write pump and the serializer's channel operations
ConnNext ==
    \/ PumpGet
    \/ PumpWrite
    \/ PumpCheck
    \/ PumpReport
    \/ ReceiveRead
    \/ ReceiveCheck
    \/ ReceiveReport
    \/ ClientGone
    \/ SerializerSendMessage
    \/ ConnectionSendMessage
    \/ CloseKill
    \/ CloseTimerFire
    \/ TickRemove
    \/ PumpRemove
    \/ Remove
    \/ ReceiveDisconnect
    \/ SendImmediateDisconnect
    \/ NextPhase
    \/ \E closes \in BOOLEAN : HandleRequest(closes)

ConnSpec == Init /\ [][ConnNext]_vars

\* calculateScore on every field of up to MaxField cards
ScoreNext == \E card \in AllCards : PlaceCard(card)

ScoreSpec == Init /\ [][ScoreNext]_vars

\* the admission of one connection to the Game Service
AdmissionNext ==
    \/ SecondPasses
    \/ ReadFrame
    \/ AdmissionReadError
    \/ \E authOk \in BOOLEAN : ReceiveAuth(authOk)
    \/ \E matchOk \in BOOLEAN : ReceiveMatchID(matchOk)
    \/ ConnectionTimedOut

AdmissionSpec == Init /\ [][AdmissionNext]_vars

\* the turn timer of one match and the latencies of its two connections
TimerNext ==
    \/ \E c \in {Player1, Player2}, measured \in Latencies : PongHandler(c, measured)
    \/ \E tied, usedBlastEffect \in BOOLEAN : ResetTurnTimer(tied, usedBlastEffect)

TimerSpec == Init /\ [][TimerNext]_vars

\* the frames of a match in Play: moves, a forfeit and a relayed message, from users that
\* open one connection each
PlayFrames == GameFrames \cup {ForfeitFrame, RelayFrame}

FirstConnection(databaseID, matchID) ==
    /\ \A c \in 1..Len(clients) : clients[c].DBID # databaseID
    /\ AddClient(databaseID, matchID)

PlayNext ==
    \/ \E databaseID \in Users, matchID \in MatchIDs : FirstConnection(databaseID, matchID)
    \/ \E c \in 1..MaxClients, frame \in PlayFrames : ClientSend(c, frame)
    \/ \E m \in MatchIDs : TimerFire(m)
    \/ DrainConnect
    \/ DrainDisconnect
    \/ TickMatches
    \/ HandleOne
    \/ HandleDone
    \/ \E i \in 1..MaxClients : GoSetMatchStart(i)
    \/ \E i \in 1..MaxClients : GoSetMatchResult(i)
    \/ \E i \in 1..MaxClients : GoUpdateMatchStats(i)

PlaySpec == Init /\ [][PlayNext]_vars

(***************************************************************************)
(* The game service when each user opens one connection, no read fails and *)
(* no frame arrives between the expiry of the turn timer and the tick that *)
(* sees it.  MainLoop never blocks, so each of its steps is taken when it  *)
(* stays possible; the goroutines are scheduled; the timer fires when it   *)
(* is armed, which the model lets happen only between two iterations.      *)
(***************************************************************************)
SendBeforeExpiry(c, frame) ==
    /\ c \in 1..Len(clients)
    /\ matches[clients[c].MatchID].timerC = 0
    /\ ClientSend(c, frame)

FairNext ==
    \/ \E databaseID \in Users, matchID \in MatchIDs : FirstConnection(databaseID, matchID)
    \/ \E c \in 1..MaxClients, frame \in GameFrames : SendBeforeExpiry(c, frame)
    \/ \E m \in MatchIDs : TimerFire(m)
    \/ DrainConnect
    \/ DrainDisconnect
    \/ TickMatches
    \/ HandleOne
    \/ HandleDone
    \/ \E i \in 1..MaxClients : GoSetMatchStart(i)
    \/ \E i \in 1..MaxClients : GoSetMatchResult(i)
    \/ \E i \in 1..MaxClients : GoUpdateMatchStats(i)

\* what TickMatches does to pc.  TickMatches is possible exactly when TickTaken is, and it is
\* the only step of the service that takes pc from "drain" to "handle"
TickTaken ==
    /\ ~crashed
    /\ pc = "drain"
    /\ Len(connect) + Len(disconnect) = 0
    /\ pc' = "handle"

Fairness ==
    /\ WF_vars(DrainConnect)
    /\ WF_vars(DrainDisconnect)
    /\ WF_pc(TickTaken)
    /\ WF_vars(HandleOne)
    /\ WF_vars(HandleDone)
    /\ WF_vars(\E i \in 1..MaxClients : GoSetMatchStart(i))
    /\ WF_vars(\E i \in 1..MaxClients : GoSetMatchResult(i))
    /\ WF_vars(\E i \in 1..MaxClients : GoUpdateMatchStats(i))
    /\ \A m \in MatchIDs : SF_vars(TimerFire(m))

FairSpec == Init /\ [][FairNext]_vars /\ Fairness

(***************************************************************************)
(* Properties of the game service                                          *)
(***************************************************************************)
codes(client) == { client.closes[i] : i \in 1..Len(client.closes) }

\* how often Match.SetMatchResult has been invoked for match m: the goroutines that have not made
\* their database call yet, and the database calls made
invocations(m) ==
    Cardinality({ i \in 1..Len(goroutines) :
                    goroutines[i].kind = "result" /\ goroutines[i].m = m /\ goroutines[i].stage = "db" })
    + Cardinality({ i \in 1..Len(setMatchResultCalls) : setMatchResultCalls[i].matchID = m })

\* C1: for every match other than the debug match, setMatchResult is invoked at most once
C1_ResultAtMostOnce ==
    \A m \in MatchIDs \ {debugGameID} : invocations(m) <= 1

\* setMatchResult was invoked twice for a match that is still waiting for its second player
C1_SecondResult ==
    \E m \in MatchIDs \ {debugGameID} :
        /\ invocations(m) = 2
        /\ matches[m].exists
        /\ matches[m].State.Phase = WaitingForPlayers

\* the outcome codes a client is closed with
OutcomeCodes == {WSCMatchForfeit, WSCMatchIllegalMove, WSCMatchMutualTimeout, WSCMatchTimeOut,
                 WSCMatchWin, WSCMatchDraw, WSCMatchLoss}

\* match m is complete for the clients a and b that were seated in it
completed(m, a, b) ==
    /\ a \in 1..Len(clients)
    /\ b \in 1..Len(clients)
    /\ ~matches[m].exists
    /\ codes(clients[a]) \cap OutcomeCodes # {}
    /\ codes(clients[b]) \cap OutcomeCodes # {}
    /\ \E i \in 1..Len(setMatchResultCalls) : setMatchResultCalls[i].matchID = m

inPlay(m, a, b) ==
    /\ a \in 1..Len(clients)
    /\ b \in 1..Len(clients)
    /\ matches[m].exists
    /\ matches[m].State.Phase = Play
    /\ matches[m].Client1 = a
    /\ matches[m].Client2 = b

\* C2: a match in phase Play leads to both seated clients closed with an outcome code, the
\* result of the match recorded, and the match gone from the match map
C2_PlayCompletes ==
    \A m \in MatchIDs, a, b \in 1..MaxClients :
        inPlay(m, a, b) ~> completed(m, a, b)

\* the turn timer of match m has fired while it is the turn of player 1 alone and no frame waits
turnOfPlayer1Expired(m, a, b) ==
    /\ inPlay(m, a, b)
    /\ matches[m].timerC # 0
    /\ clients[a].WaitingForMove
    /\ ~clients[b].WaitingForMove
    /\ clients[a].InboundMessageQueue = <<>>
    /\ clients[b].InboundMessageQueue = <<>>

\* C3: the turn timer firing in the turn of player 1 with no move leads to player 1 closed with
\* TimeOut, player 2 closed with Forfeit and setMatchResult invoked with player 2 as the winner
C3_TimeOutOfPlayer1 ==
    \A m \in MatchIDs, a, b \in 1..MaxClients :
        turnOfPlayer1Expired(m, a, b)
        ~> /\ a \in 1..Len(clients)
           /\ b \in 1..Len(clients)
           /\ WSCMatchTimeOut \in codes(clients[a])
           /\ WSCMatchForfeit \in codes(clients[b])
           /\ \E i \in 1..Len(setMatchResultCalls) :
                 /\ setMatchResultCalls[i].matchID = m
                 /\ setMatchResultCalls[i].winner = clients[b].DBID

\* the turn timer has fired in the turn of player 1 alone
C3_Player1Expired ==
    \E m \in MatchIDs, a, b \in 1..MaxClients : turnOfPlayer1Expired(m, a, b)

\* C4: when the request of an illegal move is handled, the offender is closed with IllegalMove,
\* the opponent with Forfeit, and setMatchResult is invoked with the opponent as the winner
C4_IllegalMoveHandled ==
    [][ (/\ pc = "handle"
         /\ Len(immediateDisconnect) > 0
         /\ Head(immediateDisconnect).Reason = WSCMatchIllegalMove
         /\ immediateDisconnect' = Tail(immediateDisconnect))
        => LET offender == Head(immediateDisconnect).Client
               m == clients[offender].MatchID
               opponent == otherOf(matches[m], offender)
           IN  /\ matches[m].exists
               /\ opponent # NoClient
               /\ clients'[offender].closes = Append(clients[offender].closes, WSCMatchIllegalMove)
               /\ clients'[opponent].closes = Append(clients[opponent].closes, WSCMatchForfeit)
               /\ Len(goroutines') = Len(goroutines) + 1
               /\ goroutines'[Len(goroutines')].kind = "result"
               /\ goroutines'[Len(goroutines')].m = m
               /\ ~goroutines'[Len(goroutines')].live
               /\ goroutines'[Len(goroutines')].Winner = clients[opponent].DBID ]_vars

\* the request of an illegal move has been handled and the offender is closed with IllegalMove
C4_IllegalMoveClosed ==
    \E c \in 1..Len(clients) : WSCMatchIllegalMove \in codes(clients[c])

\* C5: the phase of a match only moves from WaitingForPlayers to Play and from Play to Finished
C5_PhaseForward ==
    [][ \A m \in MatchIDs :
          (matches[m].exists /\ matches'[m].exists)
          => \/ matches'[m].State.Phase = matches[m].State.Phase
             \/ matches[m].State.Phase = WaitingForPlayers /\ matches'[m].State.Phase = Play
             \/ matches[m].State.Phase = Play /\ matches'[m].State.Phase = Finished ]_vars

\* a match that was played is in the match map in phase Finished
C5_FinishedReached ==
    \E m \in MatchIDs : matches[m].exists /\ matches[m].State.Phase = Finished

(***************************************************************************)
(* Properties of the rules of play                                         *)
(***************************************************************************)
\* the cards a player holds in deck, hand, field and discard
cardCount(cards, player) ==
    Len(targetZones(cards, player).Deck) + Len(targetZones(cards, player).Hand)
    + Len(targetZones(cards, player).Field) + Len(targetZones(cards, player).Discard)

fieldSize(cards, player) == Len(targetZones(cards, player).Field)

reconciles(st, player) ==
    \/ st.Turn # PlayerUndecided
    \/ /\ fieldSize(st.Cards, player) = 0
       /\ fieldSize(st.Cards, IF player = Player1 THEN Player2 ELSE Player1) = 1

isPrefix(a, b) == Len(a) <= Len(b) /\ SubSeq(b, 1, Len(a)) = a

discardSize(cards) == Len(cards.Player1Discard) + Len(cards.Player2Discard)

waitingForMove(tbl, player) == IF player = Player1 THEN tbl.w1 ELSE tbl.w2

scoreOf(st, player) == IF player = Player1 THEN st.Player1Score ELSE st.Player2Score

handOf(st, player) == targetZones(st.Cards, player).Hand

\* the opponent holds a Force that would bring twice the opponent's score to the player's score
forceCounters(st, player, opponent) ==
    /\ scoreOf(st, player) > scoreOf(st, opponent)
    /\ contains(handOf(st, opponent), Force)
    /\ 2 * scoreOf(st, opponent) >= scoreOf(st, player)

\* C27: a player whose score exceeds the opponent's is not declared winner while the opponent
\* holds a Force card in hand and twice the opponent's score is at least the player's score.
C27_NoWinAgainstForce ==
    \A player \in {Player1, Player2} :
        (lastMove.matchEnded /\ lastMove.winner = player)
        => ~forceCounters(table.State, player, IF player = Player1 THEN Player2 ELSE Player1)

\* a match ended with a winner whose opponent holds no Force
C27_WonWithoutForceInHand ==
    /\ lastMove.matchEnded
    /\ lastMove.winner # PlayerUndecided
    /\ ~contains(handOf(table.State, IF lastMove.winner = Player1 THEN Player2 ELSE Player1), Force)

\* a position of LateGames as it is meant to be: nothing but the hands is left
lateGame(tbl) ==
    /\ tbl.State.Turn = PlayerUndecided
    /\ tbl.State.Cards.Player1Deck = <<>> /\ tbl.State.Cards.Player2Deck = <<>>
    /\ tbl.State.Cards.Player1Field = <<>> /\ tbl.State.Cards.Player2Field = <<>>

LateGamesPlayedOut ==
    moves = 0 =>
        /\ lateGame(table)
        /\ Len(table.State.Cards.Player1Hand) = Len(table.State.Cards.Player2Hand)
        /\ Len(table.State.Cards.Player1Hand) \in {2, 3}
        /\ cardCount(table.State.Cards, Player1) = 15
        /\ cardCount(table.State.Cards, Player2) = 15

otherPlayer(player) == IF player = Player1 THEN Player2 ELSE Player1

\* the last move was a resolved Blast that left the hand of the mover's opponent empty
blastEmptiedHand ==
    /\ lastMove.validMove
    /\ lastMove.usedBlast
    /\ handOf(table.State, otherPlayer(lastMove.player)) = <<>>

\* C22: for either player X, when X resolves a Blast that leaves the opponent's hand empty
\* and the position is not a draw, the match ends and X is the winner that is declared.
C22_BlastIntoEmptyHandWins ==
    (blastEmptiedHand /\ ~isDrawn(table.State))
    => (lastMove.matchEnded /\ lastMove.winner = lastMove.player)

\* a Blast emptied the hand of the mover's opponent, the position is not a draw and the
\* match ended
C22_BlastEmptiedHand ==
    /\ blastEmptiedHand
    /\ ~isDrawn(table.State)
    /\ lastMove.matchEnded

\* the last move was made in a decided turn, was not a resolved Blast, and left the mover
\* with the lower score
moverStillLower ==
    /\ lastMove.validMove
    /\ ~lastMove.usedBlast
    /\ lastMove.player # PlayerUndecided
    /\ scoreOf(table.State, lastMove.player) < scoreOf(table.State, otherPlayer(lastMove.player))

\* C26: a resolved move that is not a Blast, made while the turn was decided, and that
\* leaves the mover's score lower than the opponent's ends the match with the opponent as
\* the winner that is declared.
C26_LowerMoverLoses ==
    [][ ( /\ moves' = moves + 1
          /\ table.State.Turn # PlayerUndecided
          /\ lastMove'.validMove
          /\ ~lastMove'.usedBlast
          /\ scoreOf(table'.State, lastMove'.player)
               < scoreOf(table'.State, otherPlayer(lastMove'.player)) )
        => /\ lastMove'.matchEnded
           /\ lastMove'.winner = otherPlayer(lastMove'.player) ]_vars

\* a mover stayed lower and the opponent was declared the winner
C26_OpponentWon ==
    /\ moverStillLower
    /\ lastMove.matchEnded
    /\ lastMove.winner = otherPlayer(lastMove.player)

\* nothing is left to play and the scores are equal
playedOutLevel(st) ==
    /\ st.Cards.Player1Deck = <<>> /\ st.Cards.Player2Deck = <<>>
    /\ st.Cards.Player1Hand = <<>> /\ st.Cards.Player2Hand = <<>>
    /\ st.Player1Score = st.Player2Score

queueKeys(q) == { dbid \in MMUsers : q[dbid] # NoClient }

\* the members of seq that are in the set keep, in the order of seq
RECURSIVE kept(_, _)
kept(seq, keep) ==
    IF Len(seq) = 0 THEN <<>>
    ELSE IF Head(seq) \in keep THEN << Head(seq) >> \o kept(Tail(seq), keep)
    ELSE kept(Tail(seq), keep)

\* C7: an iteration that takes one connection of a user who is already a queue entry, and has
\* no other request to handle, closes the old connection with the duplicate code, does not close
\* the new one, makes the new one the queue entry, and leaves the join order and the size of
\* the queue as they were
C7_DuplicateReplacesOld ==
    [][ \A new \in 1..Len(mmClients) :
          (/\ ticks' = ticks + 1
           /\ mmConnect = << new >>
           /\ mmDisconnect = <<>>
           /\ queue[mmClients[new].DBID] # NoClient)
          => /\ mmClients'[queue[mmClients[new].DBID]].closes
                  = Append(mmClients[queue[mmClients[new].DBID]].closes, WSCDuplicateConnection)
             /\ mmClients'[new].closes = <<>>
             /\ ~mmClients'[new].pendingKill
             /\ queue'[mmClients[new].DBID] = new
             /\ clientIndex' = clientIndex
             /\ queueKeys(queue') = queueKeys(queue) ]_vars

\* a second connection of a user has become the queue entry of that user
C7_DuplicateTaken ==
    \E old, new \in 1..Len(mmClients) :
        /\ old < new
        /\ mmClients[old].DBID = mmClients[new].DBID
        /\ queue[mmClients[new].DBID] = new
        /\ ticks > 0

\* C8: after every iteration the join-order list holds exactly the keys of the queue map, each
\* once, and an iteration that takes no connection leaves the survivors in their order
C8_IndexIsQueue ==
    [][ (ticks' = ticks + 1 /\ ~mmCrashed')
        => /\ { clientIndex'[i] : i \in 1..Len(clientIndex') } = queueKeys(queue')
           /\ Len(clientIndex') = Cardinality(queueKeys(queue'))
           /\ mmConnect = <<>> => clientIndex' = kept(clientIndex, queueKeys(queue')) ]_vars

\* C9: the pairs an iteration makes hold every client at most once, and hold no client that was
\* under a ready check when the iteration began
C9_PairsDisjoint ==
    [][ (ticks' = ticks + 1 /\ ~mmCrashed')
        => \A i \in (Len(matchedPairs) + 1)..Len(polled') :
              /\ polled'[i].Client1 # polled'[i].Client2
              /\ mmClients'[polled'[i].Client1].DBID # mmClients'[polled'[i].Client2].DBID
              /\ ~mmClients[polled'[i].Client1].IsReadyChecking
              /\ ~mmClients[polled'[i].Client2].IsReadyChecking
              /\ \A j \in (Len(matchedPairs) + 1)..Len(polled') :
                    i # j => {polled'[i].Client1, polled'[i].Client2}
                             \cap {polled'[j].Client1, polled'[j].Client2} = {} ]_vars

\* the pairs of polled that did not report done, in slice order
RECURSIVE notDone(_, _, _)
notDone(pairs, done, i) ==
    IF i > Len(pairs) THEN <<>>
    ELSE IF i \in done THEN notDone(pairs, done, i + 1)
    ELSE << pairs[i] >> \o notDone(pairs, done, i + 1)

\* C10: an iteration removes exactly the pairs whose ready check reported done, and no pair is
\* left whose ready check began more than readyCheckTime before the iteration
C10_DonePairsRemoved ==
    [][ (ticks' = ticks + 1 /\ ~mmCrashed')
        => /\ matchedPairs' = notDone(polled', reportedDone', 1)
           /\ \A i \in 1..Len(matchedPairs') :
                 now - matchedPairs'[i].ReadyStart <= readyCheckTime ]_vars

\* two pairs were under a ready check in one iteration and one of them reported done
C10_TwoPairsOneDone ==
    Len(polled) = 2 /\ Cardinality(reportedDone) = 1

\* the positions of the messages with the code in what was sent to matchmaking client c
sentAt(c, code) == { k \in 1..Len(mmClients[c].sent) : mmClients[c].sent[k].Code = code }

\* the CreateMatch calls made for the pair of connections of call k
callsFor(k) ==
    { j \in 1..Len(createMatchCalls) :
        /\ createMatchCalls[j].Client1 = createMatchCalls[k].Client1
        /\ createMatchCalls[j].Client2 = createMatchCalls[k].Client2 }

\* client c of a pair whose match was created with matchID was told GameFound and then, once,
\* MatchConfirmed with that match ID
confirmedOnce(c, matchID) ==
    /\ Cardinality(sentAt(c, WSCMatchConfirmed)) = 1
    /\ \A k \in sentAt(c, WSCMatchConfirmed) :
          /\ mmClients[c].sent[k].Message = matchID
          /\ \E f \in sentAt(c, WSCMatchMakingGameFound) : f < k

\* client c left the queue, or its removal waits on the disconnect channel
leavesQueue(c) ==
    \/ queue[mmClients[c].DBID] # c
    \/ \E r \in 1..Len(mmDisconnect) : mmDisconnect[r].Client = c

\* C11: for every pair of two clients that both accepted in time and whose match was created,
\* createMatch was invoked exactly once for the pair, each of the two clients was sent GameFound
\* and later exactly one MatchConfirmed with the ID of that match, and both leave the queue
C11_OneMatchPerAcceptedPair ==
    \A k \in 1..Len(createMatchCalls) :
        createMatchCalls[k].matchID # 0 /\ createMatchCalls[k].Client1 # createMatchCalls[k].Client2 =>
            /\ callsFor(k) = {k}
            /\ confirmedOnce(createMatchCalls[k].Client1, createMatchCalls[k].matchID)
            /\ confirmedOnce(createMatchCalls[k].Client2, createMatchCalls[k].matchID)
            /\ leavesQueue(createMatchCalls[k].Client1)
            /\ leavesQueue(createMatchCalls[k].Client2)

\* a match was created for a pair of two different connections that both accepted
C11_MatchCreated ==
    \E k \in 1..Len(createMatchCalls) :
        /\ createMatchCalls[k].matchID # 0
        /\ createMatchCalls[k].Client1 # createMatchCalls[k].Client2
        /\ mmClients[createMatchCalls[k].Client1].Ready
        /\ mmClients[createMatchCalls[k].Client2].Ready

\* a ready check of accepter and other has just timed out with only accepter having accepted:
\* the pair reported done, accepter was told OpponentDidNotAccept last, and the removal of other
\* with ReadyCheckFailed is the only request waiting
oneAccepted(accepter, other) ==
    /\ accepter # other
    /\ \E i \in reportedDone :
          i \in 1..Len(polled) /\ {polled[i].Client1, polled[i].Client2} = {accepter, other}
    /\ Len(mmClients[accepter].sent) > 0
    /\ mmClients[accepter].sent[Len(mmClients[accepter].sent)].Code = WSCOpponentDidNotAccept
    /\ mmDisconnect = << DisconnectRequest(other, WSCReadyCheckFailed) >>
    /\ queue[mmClients[accepter].DBID] = accepter
    /\ queue[mmClients[other].DBID] = other
    /\ mmClients[accepter].closes = <<>>

\* the join-order list without the entries of the user
without(index, dbid) == SelectSeq(index, LAMBDA d : d # dbid)

\* C12: when a ready check timed out with exactly one client having accepted, the iteration that
\* handles the removal closes the other client with ReadyCheckFailed, and the accepting client
\* is not closed, stays in the queue map, keeps its place in the join-order list (the list
\* loses the other client's entry only, users that join are added at its end) and can be
\* paired again
C12_AccepterKeepsPlace ==
    [][\A accepter, other \in 1..Len(mmClients) :
          oneAccepted(accepter, other) /\ ticks' = ticks + 1 =>
              /\ mmClients'[other].closes = << WSCReadyCheckFailed >>
              /\ mmClients'[accepter].closes = <<>>
              /\ queue'[mmClients[accepter].DBID] = accepter
              /\ Len(clientIndex') >= Len(without(clientIndex, mmClients[other].DBID))
              /\ SubSeq(clientIndex', 1, Len(without(clientIndex, mmClients[other].DBID)))
                     = without(clientIndex, mmClients[other].DBID)
              /\ \E k \in 1..Len(clientIndex') : clientIndex'[k] = mmClients[accepter].DBID
              /\ \/ ~mmClients'[accepter].IsReadyChecking
                 \/ \E i \in 1..Len(matchedPairs') :
                       accepter \in {matchedPairs'[i].Client1, matchedPairs'[i].Client2}]_vars

\* the client that did not accept was closed with ReadyCheckFailed and the one that accepted was
\* told OpponentDidNotAccept and is still open
C12_OnlyOneAccepted ==
    \E accepter, other \in 1..Len(mmClients) :
        /\ sentAt(accepter, WSCOpponentDidNotAccept) # {}
        /\ mmClients[accepter].closes = <<>>
        /\ mmClients[other].closes = << WSCReadyCheckFailed >>
        /\ mmClients[other].IsReadyChecking

\* client c is handled as a client whose match was found: it was sent MatchConfirmed, or it is
\* closed or waits to be closed with the code of a found match
treatedAsMatched(c) ==
    \/ sentAt(c, WSCMatchConfirmed) # {}
    \/ \E k \in 1..Len(mmClients[c].closes) : mmClients[c].closes[k] = WSCNone
    \/ \E r \in 1..Len(mmDisconnect) : mmDisconnect[r] = DisconnectRequest(c, WSCNone)

\* client c is closed with ReadyCheckFailed, or that removal waits on the disconnect channel
failsReadyCheck(c) ==
    \/ \E k \in 1..Len(mmClients[c].closes) : mmClients[c].closes[k] = WSCReadyCheckFailed
    \/ \E r \in 1..Len(mmDisconnect) : mmDisconnect[r] = DisconnectRequest(c, WSCReadyCheckFailed)

\* C13: when both clients of a pair are ready-valid and createMatch fails, both clients are
\* removed with ReadyCheckFailed and neither is sent MatchConfirmed nor closed as matched
C13_FailedCreateFailsCheck ==
    \A k \in 1..Len(createMatchCalls) :
        createMatchCalls[k].matchID = 0 /\ callsFor(k) = {k} =>
            /\ failsReadyCheck(createMatchCalls[k].Client1)
            /\ failsReadyCheck(createMatchCalls[k].Client2)
            /\ ~treatedAsMatched(createMatchCalls[k].Client1)
            /\ ~treatedAsMatched(createMatchCalls[k].Client2)

\* createMatch failed for a pair of two connections that both accepted
C13_CreateFailed ==
    \E k \in 1..Len(createMatchCalls) :
        /\ createMatchCalls[k].matchID = 0
        /\ createMatchCalls[k].Client1 # createMatchCalls[k].Client2
        /\ mmClients[createMatchCalls[k].Client1].Ready
        /\ mmClients[createMatchCalls[k].Client2].Ready
        /\ callsFor(k) = {k}

\* the requests with a timeout reason that a tick of match m put on the disconnect channel
timeouts(m) ==
    { r \in 1..Len(disconnect') :
        /\ disconnect'[r].Reason \in {WSCMatchMutualTimeout, WSCMatchTimeOut}
        /\ disconnect'[r].Client \in {matches[m].Client1, matches[m].Client2} }

\* the turn timer of match m has fired and the serializer ticks the match in this step
timerTicked(m) ==
    /\ matches[m].exists
    /\ matches[m].State.Phase = Play
    /\ matches[m].timerC # 0
    /\ pc = "drain"
    /\ pc' = "handle"

\* C14: a tick that finds the turn timer fired emits exactly one request with MutualTimeout or
\* TimeOut: MutualTimeout exactly when both clients are waiting for a move, otherwise TimeOut
\* for a client that is waiting for a move, with the other client as the winner
C14_TimedOutClientWaits ==
    [][\A m \in MatchIDs :
          timerTicked(m) =>
              /\ Cardinality(timeouts(m)) = 1
              /\ \A r \in timeouts(m) :
                    LET client == disconnect'[r].Client
                        other == otherOf(matches[m], client)
                        bothWait == /\ clients'[matches[m].Client1].WaitingForMove
                                    /\ clients'[matches[m].Client2].WaitingForMove
                    IN  /\ disconnect'[r].Reason = WSCMatchMutualTimeout <=> bothWait
                        /\ disconnect'[r].Reason = WSCMatchTimeOut =>
                              /\ clients'[client].WaitingForMove
                              /\ matches'[m].State.Winner = clients[other].DBID]_vars

\* a match was finished by its turn timer with one client timed out
C14_TimeOutEmitted ==
    \E m \in MatchIDs, r \in 1..Len(disconnect) :
        /\ matches[m].exists
        /\ matches[m].State.Phase = Finished
        /\ disconnect[r].Reason = WSCMatchTimeOut
        /\ disconnect[r].Client \in {matches[m].Client1, matches[m].Client2}
        /\ clients[disconnect[r].Client].WaitingForMove

\* the serializer handles a request made for a connection of a match that is in the match
\* map and is Finished, with a reason that is neither Win nor Draw
finishedRequestHandled ==
    /\ ~crashed
    /\ pc = "handle"
    /\ Len(immediateDisconnect) > 0
    /\ immediateDisconnect' = Tail(immediateDisconnect)
    /\ matches[clients[Head(immediateDisconnect).Client].MatchID].exists
    /\ matches[clients[Head(immediateDisconnect).Client].MatchID].State.Phase = Finished
    /\ Head(immediateDisconnect).Reason \notin {WSCMatchWin, WSCMatchDraw}

staleRequestHandled(c) ==
    /\ ~crashed
    /\ pc = "handle"
    /\ Len(immediateDisconnect) > 0
    /\ immediateDisconnect' = Tail(immediateDisconnect)
    /\ Head(immediateDisconnect).Client = c
    /\ matches[clients[c].MatchID].exists
    /\ c \notin {matches[clients[c].MatchID].Client1, matches[clients[c].MatchID].Client2}
    /\ \E newer \in {matches[clients[c].MatchID].Client1, matches[clients[c].MatchID].Client2} \ {NoClient} :
          clients[newer].DBID = clients[c].DBID

\* C16: when a disconnect request is handled for a connection that was replaced in its slot by
\* a newer connection of the same user, the other clients are not closed, the match stays in
\* the match map with its phase unchanged, and no result is recorded for it
C16_StaleKeepsMatch ==
    [][\A c \in 1..Len(clients) :
          staleRequestHandled(c) =>
              /\ \A other \in 1..Len(clients) : other # c => clients'[other].closes = clients[other].closes
              /\ matches'[clients[c].MatchID].exists
              /\ matches'[clients[c].MatchID].State.Phase = matches[clients[c].MatchID].State.Phase
              /\ invocations(clients[c].MatchID)' = invocations(clients[c].MatchID)]_vars

\* a replaced connection was closed with MultipleConnections while its match was in Play
C16_StaleClosed ==
    \E c \in 1..Len(clients) :
        /\ clients[c].closes = << WSCMatchMultipleConnections >>
        /\ matches[clients[c].MatchID].exists
        /\ matches[clients[c].MatchID].State.Phase > WaitingForPlayers
        /\ c \notin {matches[clients[c].MatchID].Client1, matches[clients[c].MatchID].Client2}

\* both slots of the match are filled
bothSeated(match) == match.exists /\ match.Client1 # NoClient /\ match.Client2 # NoClient

\* the slots that are filled hold connections of different users
distinctUsers(match) ==
    match.Client1 # NoClient /\ match.Client2 # NoClient =>
        clients[match.Client1].DBID # clients[match.Client2].DBID

\* C17: the two slots of a match never hold the same user, a match is in Play or later only
\* with both slots filled by two different users, and a match is started in exactly the steps
\* that seat the second of two different users
C17_SeatsAndStart ==
    /\ [](\A m \in MatchIDs :
            matches[m].exists =>
                /\ distinctUsers(matches[m])
                /\ matches[m].State.Phase >= Play => bothSeated(matches[m]))
    /\ [][\A m \in MatchIDs :
             (matches[m].State.Phase = WaitingForPlayers /\ matches'[m].State.Phase = Play)
                 <=> (~bothSeated(matches[m]) /\ bothSeated(matches'[m]))]_vars

\* a match is in Play with two different users in its slots
C17_TwoUsersInPlay ==
    \E m \in MatchIDs :
        /\ matches[m].State.Phase = Play
        /\ bothSeated(matches[m])
        /\ clients[matches[m].Client1].DBID # clients[matches[m].Client2].DBID


(***************************************************************************)
(* Properties of a connection and of the serializer's channels             *)
(***************************************************************************)
\* Close has returned and the remote end has accepted every write so far
closedWhileWritable == clientPendingKill /\ writable

\* C18: when a client is closed with a final message and the transport stays
\* writable, then once the write pump has exited, and once the transport is
\* released, the final message and every message enqueued before it have been
\* written to the transport, in the order they were enqueued.
C18_FinalMessageWritten ==
    closedWhileWritable /\ (pollSendAt = "exited" \/ wsClosed)
        => /\ written = enqueued
           /\ enqueued # <<>>
           /\ enqueued[Len(enqueued)] = FinalMessage

\* a client with an earlier message was closed and its pump wrote everything before it exited
C18_PumpExitedAfterFinal ==
    /\ closedWhileWritable
    /\ pollSendAt = "exited"
    /\ Len(enqueued) > 1
    /\ written = enqueued

\* the serializer is at a send to the client, the outbound queue is full and
\* the write pump, the queue's only receiver, has exited
blockedOnClient ==
    /\ sending \in {"SendMessage", "Close"}
    /\ Len(OutboundMessageQueue) = MessageBufferSize
    /\ pollSendAt = "exited"

\* the serializer is at a send on its own disconnect channel, which is full
\* and which only the serializer receives from
blockedOnDisconnect == sending = "Remove" /\ disconnectLen = BufferSize

\* the serializer is at its send on the immediate disconnect channel, which is
\* full and which only the serializer receives from
blockedOnImmediateDisconnect == sending = "immediateDisconnect" /\ immediateLen = BufferSize

\* C19: the serializer is never blocked forever by a channel send: not by a
\* send to a client whose outbound queue is full and whose write pump has
\* exited, not by a removal it enqueues on its own disconnect channel inside
\* the tick, and not by its send on the immediate disconnect channel.
C19_SerializerNeverBlockedForever ==
    /\ ~blockedOnClient
    /\ ~blockedOnDisconnect
    /\ ~blockedOnImmediateDisconnect

\* the serializer waits at a send to a client whose queue is full and whose pump still runs
C19_SendWaitsForRoom ==
    /\ sending = "SendMessage"
    /\ Len(OutboundMessageQueue) = MessageBufferSize
    /\ pollSendAt # "exited"


(***************************************************************************)
(* Properties of calculateScore                                            *)
(***************************************************************************)
RECURSIVE runningTotal(_, _)
\* the total after the first n cards of cards, read from left to right, in
\* the integers: a bolted card leaves it, a Force that is not the first card
\* doubles it, any other card adds its value
runningTotal(cards, n) ==
    IF n = 0 THEN 0
    ELSE CHOOSE total \in
            { IF cards[n] \in InactiveElliotsOrbalStaff..InactiveForce THEN before
              ELSE IF cards[n] = Force /\ n > 1 THEN 2 * before
              ELSE before + Value(cards[n]) : before \in { runningTotal(cards, n - 1) } } : TRUE

\* C20: for every field the computed score is the left-to-right running
\* total in which a bolted card contributes 0, a Force at index > 0 doubles
\* the running total, and every other card (a Force at index 0 too) adds its
\* value.
C20_ScoreIsRunningTotal == score = runningTotal(field, Len(field))

\* a scored field with a bolted card, a Force at index 0 and a Force that doubles a total above 0
C20_ForceDoublesAfterBolted ==
    /\ Len(field) = MaxField
    /\ field[1] = Force
    /\ \E i \in 2..Len(field) : isBolted(field[i])
    /\ field[Len(field)] = Force
    /\ score = 2


(***************************************************************************)
(* Properties of the admission to the Game Service                         *)
(***************************************************************************)
\* C23: a connection is handed to the Game Service only if its match-ID frame
\* (and so its auth frame before it) arrived within connectionTimeOut of the
\* moment the connection was made.
C23_AdmittedWithinOneWindow ==
    handler = "added" => matchIDReadAt <= connectionTimeOut

\* a connection was admitted whose second frame came inside the window
C23_AdmittedInTime ==
    /\ handler = "added"
    /\ matchIDReadAt >= 0
    /\ matchIDReadAt <= connectionTimeOut

(***************************************************************************)
(* Properties of the turn timer                                            *)
(***************************************************************************)
\* the larger of two durations
larger(t1, t2) == IF t1 >= t2 THEN t1 ELSE t2

\* C30: whenever the turn timer is re-armed after a move, its period is
\* turnMaxWait plus the larger of the two clients' latencies, plus the
\* additional wait that applies (the helper returns the maximum of its two
\* arguments).
C30_TimerUsesLargerLatency ==
    [][ timerResets' = timerResets + 1
        => \E additional \in {0, tiedScoreAdditionalWait, blastCardAdditionalWait} :
              nextTurnPeriod' = turnMaxWait + larger(Latency[Player1], Latency[Player2]) + additional ]_vars

\* the timer was re-armed while the two latencies differed
C30_RearmedWithUnequalLatencies ==
    /\ timerResets > 0
    /\ Latency[Player1] # Latency[Player2]

(***************************************************************************)
(* Properties of the frames of a match in Play                             *)
(***************************************************************************)
\* the client in the other seat of c's match, and the player c is
opponentOf(c) ==
    IF matches[clients[c].MatchID].Client1 = c THEN matches[clients[c].MatchID].Client2
    ELSE matches[clients[c].MatchID].Client1

playerOf(c) == IF matches[clients[c].MatchID].Client1 = c THEN Player1 ELSE Player2

\* the step is a round of ticks in which the only frame of c's match is one frame of c, the
\* match is in Play and its timer has not fired
aloneInTick(c, frame) ==
    /\ pc = "drain"
    /\ pc' = "handle"
    /\ c \in 1..Len(clients)
    /\ matches[clients[c].MatchID].exists
    /\ matches[clients[c].MatchID].State.Phase = Play
    /\ c \in {matches[clients[c].MatchID].Client1, matches[clients[c].MatchID].Client2}
    /\ clients[c].InboundMessageQueue = <<frame>>
    /\ clients[opponentOf(c)].InboundMessageQueue = <<>>
    /\ matches[clients[c].MatchID].timerC = 0

\* Remove was called for client c with this reason
removeRequested(requests, c, reason) ==
    \E i \in 1..Len(requests) : requests[i] = DisconnectRequest(c, reason)

\* C24: a Move received from a player while the turn belongs to the other
\* player is not applied to the cards and is not forwarded to the opponent;
\* the sender is removed for an illegal move and the opponent is the winner.
C24_WrongTurnMoveRejected ==
    [][ \A c \in 1..MaxClients, frame \in PlayFrames :
          ( /\ aloneInTick(c, frame)
            /\ frame.Code = WSCMatchMove
            /\ matches[clients[c].MatchID].State.Turn = otherPlayer(playerOf(c)) )
          => /\ matches'[clients[c].MatchID].State.Cards = matches[clients[c].MatchID].State.Cards
             /\ forwarded' = <<>>
             /\ matches'[clients[c].MatchID].State.Winner = clients[opponentOf(c)].DBID
             /\ removeRequested(disconnect', c, WSCMatchIllegalMove) ]_vars

\* a round of ticks has removed a client for an illegal move while the turn was its
\* opponent's, and forwarded nothing
C24_MoveOutOfTurn ==
    \E c \in 1..Len(clients) :
        /\ pc = "handle"
        /\ matches[clients[c].MatchID].exists
        /\ c \in {matches[clients[c].MatchID].Client1, matches[clients[c].MatchID].Client2}
        /\ matches[clients[c].MatchID].State.Turn = otherPlayer(playerOf(c))
        /\ matches[clients[c].MatchID].State.Winner = clients[opponentOf(c)].DBID
        /\ removeRequested(disconnect, c, WSCMatchIllegalMove)
        /\ forwarded = <<>>

\* C29: when a seated client of a match in Play sends a Forfeit frame, the
\* tick that reads it sets the other client as winner and enqueues the
\* forfeiting client for removal with reason Forfeit.
C29_ForfeitEndsMatch ==
    [][ \A c \in 1..MaxClients :
          aloneInTick(c, ForfeitFrame)
          => /\ matches'[clients[c].MatchID].State.Winner = clients[opponentOf(c)].DBID
             /\ removeRequested(disconnect', c, WSCMatchForfeit) ]_vars

\* a Forfeit frame of a seated client waits for the next tick of its match in Play
C29_ForfeitQueued ==
    \E c \in 1..Len(clients) :
        /\ pc = "drain"
        /\ Len(connect) + Len(disconnect) = 0
        /\ matches[clients[c].MatchID].exists
        /\ matches[clients[c].MatchID].State.Phase = Play
        /\ c \in {matches[clients[c].MatchID].Client1, matches[clients[c].MatchID].Client2}
        /\ clients[c].InboundMessageQueue = <<ForfeitFrame>>

(***************************************************************************)
(* Properties of handleDisconnectRequests                                  *)
(***************************************************************************)
\* the step handles the request at the head of the immediate disconnect queue
handlesRequest ==
    /\ ~crashed
    /\ pc = "handle"
    /\ Len(immediateDisconnect) > 0
    /\ immediateDisconnect' = Tail(immediateDisconnect)

\* the match the request at the head of the immediate disconnect queue names
requestMatch == matches[clients[Head(immediateDisconnect).Client].MatchID]

\* C31: handling a disconnect request while its match is in phase
\* WaitingForPlayers never invokes SetMatchResult, never closes the other
\* client and never deletes the match; a slot is vacated only if the
\* request's connection is its occupant.
C31_WaitingHandledQuietly ==
    [][ ( /\ handlesRequest
          /\ requestMatch.exists
          /\ requestMatch.State.Phase = WaitingForPlayers )
        => \E c \in { Head(immediateDisconnect).Client } :
             \E m \in { clients[c].MatchID } :
               /\ goroutines' = goroutines
               /\ \A d \in 1..Len(clients) : d # c => clients'[d] = clients[d]
               /\ matches'[m].exists
               /\ matches'[m].Client1 # matches[m].Client1 => matches[m].Client1 = c
               /\ matches'[m].Client2 # matches[m].Client2 => matches[m].Client2 = c ]_vars

\* a request was handled in phase WaitingForPlayers and vacated the first slot
C31_SlotVacated ==
    /\ matches[1].exists
    /\ matches[1].State.Phase = WaitingForPlayers
    /\ matches[1].Client1 = NoClient
    /\ \E c \in 1..Len(clients) : clients[c].pendingKill

(***************************************************************************)
(* Properties of the two pumps of a client                                 *)
(***************************************************************************)
\* the step is a pump of the client putting its removal request on the disconnect channel
pumpReports ==
    \/ pollSendAt = "remove" /\ pollSendAt' = "exited"
    \/ pollReceiveAt = "remove" /\ pollReceiveAt' = "exited"

\* C32: once Close has set pendingKill on a client, neither its read pump nor
\* its write pump enqueues a disconnect request for it.
C32_NoReportAfterPendingKill ==
    [][ clientPendingKill => ~pumpReports ]_vars

\* both pumps have exited after Close set pendingKill; the remote end never went away, so
\* their reads and writes failed only once the transport was closed, and neither reported
C32_PumpsExitedSilently ==
    /\ clientPendingKill
    /\ writable
    /\ pollSendAt = "exited"
    /\ pollReceiveAt = "exited"

(***************************************************************************)
(* Properties of the ready check                                           *)
(***************************************************************************)
\* the messages a client was sent since its last ready check began
RECURSIVE sinceGameFound(_)
sinceGameFound(messages) ==
    IF Len(messages) = 0 THEN <<>>
    ELSE IF messages[Len(messages)].Code = WSCMatchMakingGameFound THEN <<>>
    ELSE Append(sinceGameFound(SubSeq(messages, 1, Len(messages) - 1)), messages[Len(messages)])

\* how many of them are OpponentAccepted
toldAccepted(client) ==
    Cardinality({ i \in 1..Len(sinceGameFound(client.sent)) :
                    sinceGameFound(client.sent)[i].Code = WSCOpponentAccepted })

\* the client has accepted within readyCheckTime of the start of the pair's ready check
readyValid(client, clientPair) ==
    client.Ready /\ client.ReadyTime - clientPair.ReadyStart <= readyCheckTime

\* C33: in every ready check in which exactly one client of the pair has
\* validly accepted and the check has not timed out, the other client is sent
\* OpponentAccepted exactly once during that ready check, also when the
\* accepting client has survived an earlier failed ready check.
C33_OpponentToldOnce ==
    [][ ticks' = ticks + 1
        => \A i \in 1..Len(matchedPairs') :
             \A clientPair \in { matchedPairs'[i] } :
               ( /\ clientPair.IsReadyChecking
                 /\ now - clientPair.ReadyStart <= readyCheckTime
                 /\ readyValid(mmClients'[clientPair.Client1], clientPair)
                    # readyValid(mmClients'[clientPair.Client2], clientPair) )
               => IF readyValid(mmClients'[clientPair.Client1], clientPair)
                  THEN toldAccepted(mmClients'[clientPair.Client2]) = 1
                  ELSE toldAccepted(mmClients'[clientPair.Client1]) = 1 ]_vars

\* a client is told once that its opponent accepted
C33_ToldInFirstCheck ==
    \E i \in 1..Len(matchedPairs) :
        /\ matchedPairs[i].IsReadyChecking
        /\ readyValid(mmClients[matchedPairs[i].Client1], matchedPairs[i])
        /\ ~readyValid(mmClients[matchedPairs[i].Client2], matchedPairs[i])
        /\ toldAccepted(mmClients[matchedPairs[i].Client2]) = 1

(***************************************************************************)
(* Properties of the draws of an Undecided turn                            *)
(***************************************************************************)
\* C34: while the turn is Undecided each player places at most one card on
\* their field before the turn is decided: a Move from a player who has
\* already drawn in the current round is not applied to the card state.
C34_OneDrawPerRound ==
    [][ ( /\ moves' = moves + 1
          /\ table.State.Turn = PlayerUndecided
          /\ fieldSize(table.State.Cards, lastMove'.player) >= 1 )
        => table'.State.Cards = table.State.Cards ]_vars

\* a player has moved again in an Undecided round in which it had drawn already
C34_SecondDrawMade ==
    /\ table.State.Turn = PlayerUndecided
    /\ lastMove.validMove
    /\ fieldSize(table.State.Cards, lastMove.player) >= 2

\* how many times the card is among the player's deck, hand, field and discard
heldCount(cards, player, card) ==
    Cardinality({ i \in 1..Len(targetZones(cards, player).Deck) : targetZones(cards, player).Deck[i] = card })
    + Cardinality({ i \in 1..Len(targetZones(cards, player).Hand) : targetZones(cards, player).Hand[i] = card })
    + Cardinality({ i \in 1..Len(targetZones(cards, player).Field) : targetZones(cards, player).Field[i] = card })
    + Cardinality({ i \in 1..Len(targetZones(cards, player).Discard) :
                      targetZones(cards, player).Discard[i] = card })

\* C35: during Undecided, when the acting player's deck is non-empty, the card
\* put on that player's field is the card that was on top of their deck,
\* whatever card the Move names, so each player still holds the cards they
\* were dealt.
C35_DrawTakesDeckTop ==
    [][ ( /\ moves' = moves + 1
          /\ lastMove'.validMove
          /\ table.State.Turn = PlayerUndecided
          /\ Len(targetZones(table.State.Cards, lastMove'.player).Deck) > 0 )
        => /\ lastMove'.card = last(targetZones(table.State.Cards, lastMove'.player).Deck)
           /\ \A player \in {Player1, Player2}, card \in AllCards :
                heldCount(table'.State.Cards, player, card) = heldCount(table.State.Cards, player, card) ]_vars

\* the first draw of a match named the card that was on top of the deck
C35_DrewTheTopCard ==
    /\ moves = 1
    /\ lastMove.validMove
    /\ \E cards \in GenerateCards :
         \A player \in {Player1, Player2}, card \in AllCards :
            heldCount(table.State.Cards, player, card)
                = heldCount(InitializeCards(cards.p1, cards.p2), player, card)

(***************************************************************************)
(* Properties of a connect that is rejected with MatchFull                 *)
(***************************************************************************)
\* C36: rejecting a connect with MatchFull because the match is in phase Play
\* or later leaves that match unchanged: both seated clients stay connected,
\* the phase stays as it was, the match keeps being ticked and SetMatchResult
\* is not invoked because of the rejection.
C36_MatchFullLeavesMatch ==
    [][ ( /\ handlesRequest
          /\ Head(immediateDisconnect).Reason = WSCMatchFull
          /\ requestMatch.exists )
        => \E c \in { Head(immediateDisconnect).Client } :
             /\ matches'[clients[c].MatchID] = requestMatch
             /\ goroutines' = goroutines
             /\ \A d \in 1..Len(clients) : d # c => clients'[d] = clients[d] ]_vars

\* a connection that was rejected with MatchFull has been closed with that code
C36_RejectedClosed ==
    \E c \in 1..Len(clients) :
        /\ clients[c].pendingKill
        /\ \E i \in 1..Len(clients[c].closes) : clients[c].closes[i] = WSCMatchFull

(***************************************************************************)
(* Properties of a match whose end has been detected                       *)
(***************************************************************************)
\* the reasons Match.Tick passes to Remove when it has detected the end of the match
EndingReasons ==
    {WSCMatchIllegalMove, WSCMatchWin, WSCMatchDraw, WSCMatchTimeOut, WSCMatchMutualTimeout}

\* a removal request that Match.Tick made for a seated client of match m waits to be handled
endDetected(m) ==
    /\ matches[m].exists
    /\ \E i \in 1..Len(immediateDisconnect) :
         /\ immediateDisconnect[i].Reason \in EndingReasons
         /\ immediateDisconnect[i].Client \in {matches[m].Client1, matches[m].Client2}

\* C37: once a match-ending event has been detected for a match, no later
\* Move frame of that match, arriving before the disconnect request is
\* handled, is applied to the card state, changes the recorded winner or is
\* forwarded to the opponent.
C37_NoMoveAfterEnd ==
    [][ \A m \in MatchIDs :
          ( /\ pc = "drain"
            /\ pc' = "handle"
            /\ endDetected(m) )
          => /\ matches'[m].State.Cards = matches[m].State.Cards
             /\ forwarded' = <<>>
             /\ matches[m].timerC = 0 => matches'[m].State.Winner = matches[m].State.Winner ]_vars

\* a Move frame of a seated client waits for the next tick of a match in Play whose end has
\* been detected
C37_MoveAfterEndQueued ==
    \E m \in MatchIDs :
        /\ pc = "drain"
        /\ endDetected(m)
        /\ matches[m].State.Phase = Play
        /\ \E c \in {matches[m].Client1, matches[m].Client2} :
             /\ Len(clients[c].InboundMessageQueue) > 0
             /\ Head(clients[c].InboundMessageQueue).Code = WSCMatchMove

(***************************************************************************)
(* Properties of the turn timer in the tick of a move                      *)
(***************************************************************************)
\* the requests a tick left in the disconnect channel that time a client of match m out
timedOut(requests, m) ==
    { i \in 1..Len(requests) :
        /\ requests[i].Reason \in {WSCMatchTimeOut, WSCMatchMutualTimeout}
        /\ requests[i].Client \in {matches[m].Client1, matches[m].Client2} }

\* C38: when a valid move by the awaited player is processed in a tick and
\* the timer is re-armed, an expiry of the timer that occurred before that
\* move does not cause any player to be timed out in that tick.
C38_RearmDiscardsExpiry ==
    [][ \A m \in MatchIDs :
          ( /\ pc = "drain"
            /\ pc' = "handle"
            /\ matches[m].exists
            /\ matches[m].State.Phase = Play
            /\ matches[m].timerC # 0
            /\ ~matches[m].timerArmed
            /\ matches'[m].timerArmed )
          => timedOut(disconnect', m) = {} ]_vars

\* a tick has processed a valid move and re-armed a timer that had expired before the move
C38_MovedAfterExpiry ==
    \E m \in MatchIDs :
        /\ pc = "handle"
        /\ matches[m].exists
        /\ matches[m].timerArmed
        /\ matches[m].timerC = 0
        /\ forwarded # <<>>
        /\ timedOut(disconnect, m) # {}

(***************************************************************************)
(* Properties of the goroutine that writes the result of a match           *)
(***************************************************************************)
\* the i-th goroutine is a result goroutine that is still waiting after the step
staysPending(i) ==
    /\ i \in 1..Len(goroutines)
    /\ goroutines[i].kind = "result"
    /\ Len(goroutines') >= Len(goroutines)
    /\ goroutines'[i].kind = "result"
    /\ goroutines'[i].m = goroutines[i].m

\* C39: the winner written by setMatchResult and by the stats update equals
\* the winner determined when the disconnect request was handled: what the
\* waiting goroutine will write (winner, client slots) is not changed by any
\* later step of the serializer.
C39_ResultFixedWhenHandled ==
    [][ \A i \in 1..MaxClients : staysPending(i) => seenBy(goroutines[i])' = seenBy(goroutines[i]) ]_vars

\* a result goroutine waits to write while its match is still in the match map
C39_WriteWaitsForLiveMatch ==
    \E i \in 1..Len(goroutines) :
        /\ goroutines[i].kind = "result"
        /\ goroutines[i].live
        /\ matches[goroutines[i].m].exists

(***************************************************************************)
(* Properties of disconnect handling for a match with an empty slot        *)
(***************************************************************************)
\* C40: disconnect handling never accesses an empty slot: for every
\* reachable match, also one whose second player has not joined or whose
\* slot was vacated during WaitingForPlayers, and every disconnect request
\* naming that match, handling completes without failure.
C40_HandlingNeverFails ==
    [][ (handlesRequest /\ requestMatch.exists) => ~crashed' ]_vars

\* a request naming a match with an empty slot is about to be handled
C40_RequestForOpenSlot ==
    /\ ~crashed
    /\ pc = "handle"
    /\ Len(immediateDisconnect) > 0
    /\ requestMatch.exists
    /\ requestMatch.Client1 = NoClient \/ requestMatch.Client2 = NoClient

====
